---- MODULE Spec2Model ----
(***************************************************************************)
(* Rule engine of the Casino card game (Gatecrush/1010): the build         *)
(* validator (buildLogic.js), the capture validator (captureLogic.js) and  *)
(* the turn orchestrator (turns.js), modelled as a state machine.  A call  *)
(* of handleBuild / handlePair / handleCapture is one action that records  *)
(* its inputs in `call` and its return value in `result`; the caller then  *)
(* stores the returned table (Apply).                                      *)
(***************************************************************************)
EXTENDS Integers, Sequences, FiniteSets, TLC

VARIABLES tableItems,    \* the table snapshot the caller holds
          hand,          \* hand[p]: the cards player p holds
          p1Score,       \* running scores and last capturer held by the caller
          p2Score,
          lastCapturer,
          nextBuildId,   \* module-level counters of turns.js
          nextPairId,
          now,           \* the last value Date.now() returned
          pc,            \* "idle" | "returned"
          call,          \* arguments of the call in progress
          result,        \* its return value
          plays,         \* number of cards played so far
          removedIds,    \* history: build and pair ids that have left the table
          folded,        \* history: id -> cards physically folded into that item
          paired,        \* history: cards that have been put into a pair
          cascadeSteps   \* passes made by the loop of a cascading capture

vars == <<tableItems, hand, p1Score, p2Score, lastCapturer, nextBuildId,
          nextPairId, now, pc, call, result, plays, removedIds, folded, paired, cascadeSteps>>

(***************************************************************************)
(* Bounds of the model.                                                    *)
(***************************************************************************)
MaxSel == 2      \* longest selection passed to an operation
MaxNow == 1      \* Date.now() returns values in 0..MaxNow
MaxPlays == 3    \* cards played in one game

(***************************************************************************)
(* Cards and table items.                                                  *)
(***************************************************************************)
FaceRanks == {"J", "Q", "K"}

Card(s, r) == [suit |-> s, rank |-> r]

NoCard == [suit |-> "", rank |-> ""]

suitRank(card) == card.suit \o card.rank

\* parseInt on a rank string; 0 stands for NaN
parseInt(rank) ==
  CASE rank = "2" -> 2 [] rank = "3" -> 3 [] rank = "4" -> 4 [] rank = "5" -> 5
    [] rank = "6" -> 6 [] rank = "7" -> 7 [] rank = "8" -> 8 [] rank = "9" -> 9
    [] rank = "10" -> 10 [] OTHER -> 0

getBuildValue(card) ==
  IF card = NoCard THEN 0
  ELSE IF card.rank = "A" THEN 1
  ELSE IF card.rank \in FaceRanks THEN 0
  ELSE parseInt(card.rank)

combinationValue(rank) ==
  IF rank = "A" THEN 1
  ELSE IF rank \in FaceRanks THEN 0
  ELSE parseInt(rank)

noFaceCard(card) == FALSE

isFaceCard(card) == card.rank \in FaceRanks

\* Every table item is a record of one shape; the fields a JavaScript object
\* of that type does not carry hold a neutral value (hasCards = FALSE models
\* an item without a `cards` array).
Item(t, i, s, r, v, cs, hc, bs, ctl, cmp) ==
  [type |-> t, id |-> i, suit |-> s, rank |-> r, value |-> v, cards |-> cs,
   hasCards |-> hc, builds |-> bs, controller |-> ctl, isCompound |-> cmp]

CardItem(card) ==
  Item("card", "card-" \o suitRank(card), card.suit, card.rank, 0, <<>>, FALSE,
       <<>>, 0, FALSE)

\* a selected item that carries no id
BadItem == Item("card", "", "", "", 0, <<>>, FALSE, <<>>, 0, FALSE)

NoItem == Item("", "", "", "", 0, <<>>, FALSE, <<>>, 0, FALSE)

AsCard(item) == Card(item.suit, item.rank)

HasId(item) == item.id # ""

Range(s) == {s[k] : k \in DOMAIN s}

Ids(items) == {items[k].id : k \in DOMAIN items}

RECURSIVE SumSeq(_)
SumSeq(s) == IF s = <<>> THEN 0 ELSE Head(s) + SumSeq(Tail(s))

\* the items of seq whose bit is set in mask i: (i >> j) & 1 for j = 0..n-1
RECURSIVE MaskSubset(_, _)
MaskSubset(seq, i) ==
  IF seq = <<>> THEN <<>>
  ELSE (IF i % 2 = 1 THEN <<Head(seq)>> ELSE <<>>) \o MaskSubset(Tail(seq), i \div 2)

Pow2(n) == 2 ^ n

(***************************************************************************)
(* captureLogic.js: CaptureValidator.getValidCaptures                      *)
(***************************************************************************)
captureItemValue(item) ==
  IF item.type = "card" THEN combinationValue(item.rank) ELSE item.value

\* step 2b: the subsets of combinableItems, in mask order from i, that sum to
\* target and are not a single build
RECURSIVE sumCombinations(_, _, _)
sumCombinations(combinableItems, target, i) ==
  IF i >= Pow2(Len(combinableItems)) THEN <<>>
  ELSE LET subset == MaskSubset(combinableItems, i)
           currentSum == SumSeq([k \in DOMAIN subset |-> captureItemValue(subset[k])])
           keep == /\ currentSum = target
                   /\ Len(subset) > 0
                   /\ (Len(subset) > 1 \/ subset[1].type = "card")
       IN (IF keep THEN <<subset>> ELSE <<>>)
            \o sumCombinations(combinableItems, target, i + 1)

\* set.map(item => item.id).sort().join(','): equal exactly when the two sets
\* hold the same ids the same number of times
signature(set) ==
  [x \in Ids(set) |-> Cardinality({k \in DOMAIN set : set[k].id = x})]

\* step 3: keep the first set of every signature
RECURSIVE uniqueSets(_, _)
uniqueSets(sets, seen) ==
  IF sets = <<>> THEN <<>>
  ELSE LET set == Head(sets)
           ok == Len(set) > 0 /\ \A k \in DOMAIN set : HasId(set[k])
       IN IF ok /\ signature(set) \notin seen
          THEN <<set>> \o uniqueSets(Tail(sets), seen \cup {signature(set)})
          ELSE uniqueSets(Tail(sets), seen)

\* the rank test applied to loose cards only
rankMatchCards(playedRank, validTableItems) ==
  SelectSeq(validTableItems, LAMBDA item : item.type = "card" /\ item.rank = playedRank)

\* step 1: the loose cards and the pairs of the played rank
rankMatchItems(playedRank, validTableItems) ==
  SelectSeq(validTableItems,
            LAMBDA item : \/ (item.type = "card" /\ item.rank = playedRank)
                          \/ (item.type = "pair" /\ item.rank = playedRank))

\* step 2a: the builds whose value is the played card's value
buildValueMatches(playedCombinationValue, validTableItems) ==
  SelectSeq(validTableItems,
            LAMBDA item : item.type = "build" /\ item.value = playedCombinationValue)

getValidCaptures(playedCard, table) ==
  IF playedCard = NoCard THEN <<>>
  ELSE
  LET playedRank == playedCard.rank
      playedCombinationValue == combinationValue(playedRank)
      isPlayedCardNumeric == playedRank \notin FaceRanks
      validTableItems == SelectSeq(table, LAMBDA item : HasId(item) /\ item.type # "")
      rankItems == rankMatchItems(playedRank, validTableItems)
      rankSets == IF Len(rankItems) > 0 THEN <<rankItems>> ELSE <<>>
      buildMatches == buildValueMatches(playedCombinationValue, validTableItems)
      buildSets == [k \in 1..Len(buildMatches) |-> <<buildMatches[k]>>]
      combinableItems ==
        SelectSeq(validTableItems,
                  LAMBDA item : \/ (item.type = "card" /\ item.rank \notin FaceRanks)
                                \/ item.type = "build")
      valueSets ==
        IF isPlayedCardNumeric
        THEN buildSets \o sumCombinations(combinableItems, playedCombinationValue, 1)
        ELSE <<>>
  IN uniqueSets(rankSets \o valueSets, {})

(***************************************************************************)
(* turns.js: return values.  `keys` names the properties the returned      *)
(* object carries; a property that is absent holds a neutral value.        *)
(***************************************************************************)
CaptureKeys == {"success", "message", "newP1Score", "newP2Score", "newTableItems",
                "newLastCapturer", "capturedCards"}

TableKeys == {"success", "newTableItems", "message"}

CaptureResult(ok, msg, p1, p2, table, lc, cc) ==
  [keys |-> CaptureKeys, success |-> ok, message |-> msg, newP1Score |-> p1,
   newP2Score |-> p2, newTableItems |-> table, newLastCapturer |-> lc,
   capturedCards |-> cc]

TableResult(ok, table, msg) ==
  [keys |-> TableKeys, success |-> ok, message |-> msg, newP1Score |-> 0,
   newP2Score |-> 0, newTableItems |-> table, newLastCapturer |-> 0,
   capturedCards |-> <<>>]

\* { isValid: false, message } as handlePair returns it for a selection with
\* an item lacking an id
InvalidResult(msg) ==
  [keys |-> {"isValid", "message"}, success |-> FALSE, message |-> msg,
   newP1Score |-> 0, newP2Score |-> 0, newTableItems |-> <<>>,
   newLastCapturer |-> 0, capturedCards |-> <<>>]

NoResult == InvalidResult("")

\* keeps the first card of every suitRank and drops cards without one
RECURSIVE uniqueCards(_, _)
uniqueCards(cards, seen) ==
  IF cards = <<>> THEN <<>>
  ELSE LET card == Head(cards)
       IN IF suitRank(card) # "" /\ suitRank(card) \notin seen
          THEN <<card>> \o uniqueCards(Tail(cards), seen \cup {suitRank(card)})
          ELSE uniqueCards(Tail(cards), seen)

RECURSIVE Flatten(_)
Flatten(seqs) == IF seqs = <<>> THEN <<>> ELSE Head(seqs) \o Flatten(Tail(seqs))

(***************************************************************************)
(* turns.js: isValidMultiCaptureSelection and handleCapture                *)
(***************************************************************************)
\* accepts only a selection that is one generated capture set
isExactCaptureSet(playedCard, selectedItems, table) ==
  IF playedCard = NoCard THEN FALSE
  ELSE IF Len(selectedItems) = 0 THEN TRUE
  ELSE LET allValidOptions == getValidCaptures(playedCard, table)
       IN \E k \in DOMAIN allValidOptions : Ids(allValidOptions[k]) = Ids(selectedItems)

isValidMultiCaptureSelection(playedCard, selectedItems, table) ==
  IF playedCard = NoCard THEN FALSE
  ELSE IF Len(selectedItems) = 0 THEN TRUE
  ELSE IF ~ \A k \in DOMAIN selectedItems : HasId(selectedItems[k]) THEN FALSE
  ELSE
  LET selectedItemIds == Ids(selectedItems)
      allValidOptions == getValidCaptures(playedCard, table)
      isOptionSelected(option) == \A id \in Ids(option) : id \in selectedItemIds
      coveredItemIds ==
        UNION {Ids(allValidOptions[k]) :
                 k \in {j \in DOMAIN allValidOptions : isOptionSelected(allValidOptions[j])}}
  IN /\ Cardinality(coveredItemIds) = Cardinality(selectedItemIds)
     /\ \A id \in selectedItemIds : id \in coveredItemIds

\* the cards one selected item contributes to capturedCards
capturedFrom(item) ==
  IF item.type = "card" THEN <<AsCard(item)>>
  ELSE IF item.type \in {"build", "pair"} /\ item.hasCards THEN item.cards
  ELSE <<>>

\* a rejected capture returns the scores, the table and the last capturer it
\* was given, and no captured cards
captureRejected(message, player1Score, player2Score, table, lastCap) ==
  CaptureResult(FALSE, message, player1Score, player2Score, table, lastCap, <<>>)

\* no ownership test at all
noOwnedItemViolation(selectedItems, currentPlayer) == FALSE

\* the ownership test applied to builds only
ownedBuildViolation(selectedItems, currentPlayer) ==
  \E k \in DOMAIN selectedItems :
    /\ selectedItems[k].type = "build"
    /\ selectedItems[k].controller # currentPlayer

\* a selected build or pair that the acting player does not control
ownedItemViolation(selectedItems, currentPlayer) ==
  \E k \in DOMAIN selectedItems :
    /\ selectedItems[k].type \in {"build", "pair"}
    /\ selectedItems[k].controller # currentPlayer

sweepNoGuard(newTableItems, validTableItems) == Len(newTableItems) = 0

\* the table is cleared and was not empty before the capture
sweepOccurs(newTableItems, validTableItems) ==
  Len(newTableItems) = 0 /\ Len(validTableItems) > 0

\* a capture that takes the selected loose cards and leaves selected builds and pairs
captureAcceptedCardsOnly(playedCard, selectedItems, currentPlayer, player1Score, player2Score, table) ==
  LET selectedCardIds == Ids(SelectSeq(selectedItems, LAMBDA item : item.type = "card"))
  IN CaptureResult(TRUE, "", player1Score, player2Score, SelectSeq(table, LAMBDA item : item.id \notin selectedCardIds), currentPlayer, <<playedCard>>)

\* the part of handleCapture after the checks: the capture is valid
captureAccepted(playedCard, selectedItems, currentPlayer, player1Score, player2Score, table) ==
  LET capturedCards ==
        <<playedCard>> \o Flatten([k \in DOMAIN selectedItems |-> capturedFrom(selectedItems[k])])
      uniqueCapturedCards == uniqueCards(capturedCards, {})
      selectedItemIds == Ids(selectedItems)
      validTableItems == SelectSeq(table, HasId)
      newTableItems == SelectSeq(validTableItems, LAMBDA item : item.id \notin selectedItemIds)
      sweep == sweepOccurs(newTableItems, validTableItems)
      currentP1Score == IF sweep /\ currentPlayer = 1 THEN player1Score + 1 ELSE player1Score
      currentP2Score == IF sweep /\ currentPlayer # 1 THEN player2Score + 1 ELSE player2Score
  IN CaptureResult(TRUE,
                   "Player " \o ToString(currentPlayer) \o " captured "
                     \o ToString(Len(selectedItems)) \o " item(s)."
                     \o (IF sweep THEN " Sweep!" ELSE ""),
                   currentP1Score, currentP2Score, newTableItems, currentPlayer,
                   uniqueCapturedCards)

\* handleCapture with the ownership check made after the capture was processed
handleCaptureOwnershipLate(playedCard, selectedItems, currentPlayer, player1Score, player2Score, table, lastCap) ==
  IF \/ playedCard = NoCard
     \/ ~ \A k \in DOMAIN selectedItems : HasId(selectedItems[k])
     \/ ~ isValidMultiCaptureSelection(playedCard, selectedItems, table)
  THEN captureRejected("Invalid capture selection.", player1Score, player2Score, table,
                       lastCap)
  ELSE LET done == captureAccepted(playedCard, selectedItems, currentPlayer, player1Score,
                                   player2Score, table)
       IN IF ownedItemViolation(selectedItems, currentPlayer)
          THEN [done EXCEPT !.success = FALSE]
          ELSE done

handleCapture(playedCard, selectedItems, currentPlayer, player1Score, player2Score, table, lastCap) ==
  IF playedCard = NoCard
  THEN captureRejected("Invalid input for capture.", player1Score, player2Score, table,
                       lastCap)
  ELSE IF ~ \A k \in DOMAIN selectedItems : HasId(selectedItems[k])
  THEN captureRejected("Internal error: Invalid items selected.", player1Score,
                       player2Score, table, lastCap)
  ELSE IF ~ isValidMultiCaptureSelection(playedCard, selectedItems, table)
  THEN captureRejected("Invalid capture selection.", player1Score, player2Score, table,
                       lastCap)
  ELSE IF ownedItemViolation(selectedItems, currentPlayer)
  THEN captureRejected("Cannot capture Builds or Pairs you don't control.", player1Score,
                       player2Score, table, lastCap)
  ELSE captureAccepted(playedCard, selectedItems, currentPlayer, player1Score,
                       player2Score, table)

(***************************************************************************)
(* pairLogic.js is not among the sources: validatePair follows section 4.3 *)
(* of the specification (cards of the played card's rank, or one existing  *)
(* pair of that rank; no holding card).  An empty selection is taken to be *)
(* refused, as the build validator refuses it.                             *)
(***************************************************************************)
validatePair(playedCard, selectedItems, playerHand) ==
  IF playedCard = NoCard \/ Len(selectedItems) = 0
  THEN [isValid |-> FALSE, message |-> "Select a card from hand and items from table.", rank |-> ""]
  ELSE IF \E k \in DOMAIN selectedItems : selectedItems[k].type \notin {"card", "pair"}
  THEN [isValid |-> FALSE, message |-> "cannot pair with non-card/non-pair item", rank |-> ""]
  ELSE IF \E k \in DOMAIN selectedItems : selectedItems[k].type = "pair" /\ Len(selectedItems) # 1
  THEN [isValid |-> FALSE, message |-> "cannot pair with non-card/non-pair item", rank |-> ""]
  ELSE IF \E k \in DOMAIN selectedItems : selectedItems[k].rank # playedCard.rank
  THEN [isValid |-> FALSE, message |-> "selection rank mismatch", rank |-> ""]
  ELSE [isValid |-> TRUE, message |-> "", rank |-> playedCard.rank]

generatePairId(n) == "pair-" \o ToString(n)

(***************************************************************************)
(* turns.js: handlePair.  `nextPair` is the module-level nextPairId.       *)
(***************************************************************************)
\* handlePair whose extension keeps only the played card in the pair
handlePairReplacingCards(playedCard, selectedItems, currentPlayer, table, playerHand, nextPair) ==
  LET validation == validatePair(playedCard, selectedItems, playerHand)
  IN IF playedCard = NoCard \/ ~ validation.isValid \/ ~ \A k \in DOMAIN selectedItems : HasId(selectedItems[k])
     THEN TableResult(FALSE, table, validation.message)
     ELSE IF Len(selectedItems) = 1 /\ selectedItems[1].type = "pair"
     THEN TableResult(TRUE, [k \in DOMAIN table |-> IF table[k].id = selectedItems[1].id THEN [selectedItems[1] EXCEPT !.cards = <<playedCard>>, !.controller = currentPlayer] ELSE table[k]], "")
     ELSE TableResult(TRUE, SelectSeq(table, LAMBDA item : item.id \notin Ids(selectedItems)) \o <<Item("pair", generatePairId(nextPair), "", validation.rank, 0, <<playedCard>> \o [k \in DOMAIN selectedItems |-> AsCard(selectedItems[k])], TRUE, <<>>, currentPlayer, FALSE)>>, "")

handlePair(playedCard, selectedItems, currentPlayer, table, playerHand, nextPair) ==
  IF playedCard = NoCard
  THEN TableResult(FALSE, table, "Invalid input for pairing.")
  ELSE IF ~ \A k \in DOMAIN selectedItems : HasId(selectedItems[k])
  THEN InvalidResult("Internal error: Invalid items selected for pair.")
  ELSE
  LET validation == validatePair(playedCard, selectedItems, playerHand)
      rank == validation.rank
      extending == /\ Len(selectedItems) = 1
                   /\ selectedItems[1].type = "pair"
                   /\ selectedItems[1].rank = rank
      existingPair == selectedItems[1]
  IN IF ~ validation.isValid
     THEN TableResult(FALSE, table, validation.message)
     ELSE IF extending
     THEN IF ~ existingPair.hasCards
          THEN TableResult(FALSE, table, "Internal error: Invalid existing pair.")
          ELSE LET newPairObject ==
                     [existingPair EXCEPT !.cards = existingPair.cards \o <<playedCard>>,
                                          !.controller = currentPlayer]
               IN TableResult(TRUE,
                              [k \in DOMAIN table |->
                                 IF table[k].id = existingPair.id THEN newPairObject
                                 ELSE table[k]],
                              "Player " \o ToString(currentPlayer) \o " paired " \o rank \o "s.")
     ELSE IF \E k \in DOMAIN selectedItems : selectedItems[k].type # "card"
     THEN TableResult(FALSE, table, "Can only pair with cards.")
     ELSE LET itemsToRemoveIds == Ids(selectedItems)
              combinedCards ==
                <<playedCard>> \o [k \in DOMAIN selectedItems |-> AsCard(selectedItems[k])]
              newPairObject ==
                Item("pair", generatePairId(nextPair), "", rank, 0, combinedCards, TRUE,
                     <<>>, currentPlayer, FALSE)
          IN TableResult(TRUE,
                         SelectSeq(table, LAMBDA item : HasId(item) /\ item.id \notin itemsToRemoveIds)
                           \o <<newPairObject>>,
                         "Player " \o ToString(currentPlayer) \o " paired " \o rank \o "s.")

\* the value of nextPairId after the call: generatePairId ran exactly when a
\* new pair was created
pairIdsUsed(res, selectedItems) ==
  IF res.success /\ ~ (Len(selectedItems) = 1 /\ selectedItems[1].type = "pair") THEN 1 ELSE 0

(***************************************************************************)
(* buildLogic.js: helpers                                                  *)
(***************************************************************************)
getItemValue(item) ==
  IF item = NoItem \/ item.type = "" THEN 0
  ELSE IF item.type = "card" THEN (IF item.rank = "" THEN 0 ELSE getBuildValue(AsCard(item)))
  ELSE IF item.type = "build" THEN item.value
  ELSE 0

cardValues(cards) == [k \in DOMAIN cards |-> getBuildValue(cards[k])]

itemValues(items) == [k \in DOMAIN items |-> getItemValue(items[k])]

\* the first mask i, counting up from i, whose subset of cards sums to
\* targetValue; 0 when there is none
RECURSIVE firstSubsetMask(_, _, _)
firstSubsetMask(cards, targetValue, i) ==
  IF i >= Pow2(Len(cards)) THEN 0
  ELSE IF SumSeq(cardValues(MaskSubset(cards, i))) = targetValue THEN i
  ELSE firstSubsetMask(cards, targetValue, i + 1)

\* the while loop of findBuildPartitions; <<>> stands for null
RECURSIVE partitionLoop(_, _, _)
partitionLoop(remainingCards, targetValue, builds) ==
  IF remainingCards = <<>> THEN builds
  ELSE LET i == firstSubsetMask(remainingCards, targetValue, 1)
           subset == MaskSubset(remainingCards, i)
           taken == {suitRank(subset[k]) : k \in DOMAIN subset}
       IN IF i = 0 THEN <<>>
          ELSE partitionLoop(SelectSeq(remainingCards, LAMBDA c : suitRank(c) \notin taken),
                             targetValue,
                             Append(builds, [cards |-> subset, value |-> targetValue]))

\* the partition of the selected cards alone, the played card left out
findBuildPartitionsOfSelected(playedCard, cards, targetValue) ==
  LET builds == partitionLoop(cards, targetValue, <<>>)
  IN IF Len(builds) >= 2 THEN builds ELSE <<>>

findBuildPartitions(playedCard, cards, targetValue) ==
  LET builds == partitionLoop(<<playedCard>> \o cards, targetValue, <<>>)
      playedCardWasUsed ==
        \E b \in DOMAIN builds :
          \E k \in DOMAIN builds[b].cards : suitRank(builds[b].cards[k]) = suitRank(playedCard)
  IN IF Len(builds) >= 2 /\ playedCardWasUsed THEN builds ELSE <<>>

\* the holding-card check without the exclusion of the played card
hasCardOfValue(playerHand, playedCard, value) ==
  \E handCard \in playerHand : getBuildValue(handCard) = value

hasHoldingCard(playerHand, playedCard, value) ==
  \E handCard \in playerHand :
    /\ suitRank(handCard) # suitRank(playedCard)
    /\ getBuildValue(handCard) = value

\* tableItems.find(...): the player already controls a build of this value
\* whose id is not among `excluded`
existingPlayerBuild(table, value, currentPlayer, excluded) ==
  \E k \in DOMAIN table :
    /\ table[k].type = "build"
    /\ table[k].value = value
    /\ table[k].controller = currentPlayer
    /\ table[k].id \notin excluded

Validation(ok, msg, v, isMod, target, summing, cascading, multiCreate, multiBuilds, multiIncrease) ==
  [isValid |-> ok, message |-> msg, buildValue |-> v, isModification |-> isMod,
   targetBuild |-> target, summingItems |-> summing, cascadingItems |-> cascading,
   isMultiBuildCreation |-> multiCreate, multiBuildBuilds |-> multiBuilds,
   isMultiBuildIncrease |-> multiIncrease]

Invalid(msg) == Validation(FALSE, msg, 0, FALSE, NoItem, <<>>, <<>>, FALSE, <<>>, FALSE)

(***************************************************************************)
(* buildLogic.js: validateBuild, one operator per case                     *)
(***************************************************************************)
\* Case 1: increasing a multi-build
increaseMultiBuild(playedCard, selectedItems, selectedCards, targetMultiBuild, playerHand, table, currentPlayer) ==
  LET summingValue ==
        getBuildValue(playedCard)
          + SumSeq([k \in DOMAIN selectedCards |-> getBuildValue(AsCard(selectedCards[k]))])
      v == targetMultiBuild.value
  IN IF Len(selectedItems) # Len(selectedCards) + 1
     THEN Invalid("Cannot select other builds when increasing a Multi-Build.")
     ELSE IF \E k \in DOMAIN selectedCards : isFaceCard(selectedCards[k])
     THEN Invalid("Face cards cannot be used in builds.")
     ELSE IF summingValue # v
     THEN Invalid("New Build must sum to Multi-Build value " \o ToString(v) \o ".")
     ELSE IF ~ hasHoldingCard(playerHand, playedCard, v)
     THEN Invalid("Need a " \o ToString(v) \o " in hand to increase Multi-Build.")
     ELSE IF existingPlayerBuild(table, v, currentPlayer, {targetMultiBuild.id})
     THEN Invalid("You already control a Build of " \o ToString(v) \o ".")
     ELSE Validation(TRUE, "Increased Multi-Build of " \o ToString(v) \o ".", v, TRUE,
                     targetMultiBuild, selectedCards, <<>>, FALSE, <<>>, TRUE)

\* Case 2: a multi-build from several single builds
combineBuilds(playedCard, selectedBuilds, selectedCards, playerHand, table, currentPlayer) ==
  LET targetValue == selectedBuilds[1].value
      multiBuildBuilds ==
        [k \in DOMAIN selectedBuilds |->
           [cards |-> selectedBuilds[k].cards, value |-> selectedBuilds[k].value]]
          \o <<[cards |-> <<playedCard>>, value |-> targetValue]>>
  IN IF Len(selectedCards) > 0
     THEN Invalid("Cannot select cards when combining existing builds into a Multi-Build.")
     ELSE IF \E k \in DOMAIN selectedBuilds : selectedBuilds[k].isCompound
     THEN Invalid("Cannot select compound builds for new Multi-Build.")
     ELSE IF Cardinality({selectedBuilds[k].value : k \in DOMAIN selectedBuilds}) > 1
     THEN Invalid("Selected Builds must have the same value for Multi-Build.")
     ELSE IF getBuildValue(playedCard) # targetValue
     THEN Invalid("Played card (" \o playedCard.rank \o ") must match the target build value ("
                    \o ToString(targetValue) \o ").")
     ELSE IF ~ hasHoldingCard(playerHand, playedCard, targetValue)
     THEN Invalid("Need a " \o ToString(targetValue) \o " in hand for Multi-Build.")
     ELSE IF existingPlayerBuild(table, targetValue, currentPlayer, Ids(selectedBuilds))
     THEN Invalid("You already control a Build of " \o ToString(targetValue) \o ".")
     ELSE Validation(TRUE, "Created Multi-Build of " \o ToString(targetValue) \o ".",
                     targetValue, FALSE, NoItem, <<>>, <<>>, TRUE, multiBuildBuilds, FALSE)

\* Case 3: a multi-build from cards; the loop over targetValue, from
\* targetValue upwards.  Invalid("") stands for the loop ending without a
\* return.
MaxBuildValue == 10

RECURSIVE partitionCards(_, _, _, _, _, _)
partitionCards(playedCard, selectedCards, playerHand, table, currentPlayer, targetValue) ==
  IF targetValue > MaxBuildValue THEN Invalid("")
  ELSE LET builds == findBuildPartitions(
                       playedCard,
                       [k \in DOMAIN selectedCards |-> AsCard(selectedCards[k])],
                       targetValue)
       IN IF /\ builds # <<>>
             /\ hasHoldingCard(playerHand, playedCard, targetValue)
             /\ ~ existingPlayerBuild(table, targetValue, currentPlayer, {})
          THEN Validation(TRUE, "Created Multi-Build of " \o ToString(targetValue) \o ".",
                          targetValue, FALSE, NoItem, selectedCards, <<>>, TRUE, builds, FALSE)
          ELSE partitionCards(playedCard, selectedCards, playerHand, table, currentPlayer,
                              targetValue + 1)

\* the value of the played card and the summing group alone
valueWithoutTargetBuild(playedCard, currentSummingGroup, targetBuild) ==
  getBuildValue(playedCard) + SumSeq(itemValues(currentSummingGroup))

\* Case 4, currentBuildValue: the played card, the summing group and the
\* build being modified
singleBuildValue(playedCard, currentSummingGroup, targetBuild) ==
  getBuildValue(playedCard) + SumSeq(itemValues(currentSummingGroup))
    + (IF targetBuild # NoItem THEN getItemValue(targetBuild) ELSE 0)

\* Case 4: the loop over the subsets i of otherSelectedItems, from i upwards
RECURSIVE singleBuild(_, _, _, _, _, _, _)
singleBuild(playedCard, otherSelectedItems, targetBuild, playerHand, table, currentPlayer, i) ==
  IF i >= Pow2(Len(otherSelectedItems)) THEN Invalid("")
  ELSE
  LET currentSummingGroup == MaskSubset(otherSelectedItems, i)
      summingIds == Ids(currentSummingGroup)
      currentBuildValue == singleBuildValue(playedCard, currentSummingGroup, targetBuild)
      currentRemainingItems ==
        SelectSeq(otherSelectedItems, LAMBDA item : item.id \notin summingIds)
      excluded == IF targetBuild # NoItem THEN {targetBuild.id} ELSE {}
  IN IF /\ currentBuildValue > 0
        /\ currentBuildValue <= MaxBuildValue
        /\ \A k \in DOMAIN currentRemainingItems :
             getItemValue(currentRemainingItems[k]) = currentBuildValue
        /\ hasHoldingCard(playerHand, playedCard, currentBuildValue)
        /\ ~ existingPlayerBuild(table, currentBuildValue, currentPlayer, excluded)
     THEN Validation(TRUE, "Build " \o ToString(currentBuildValue) \o " is valid.",
                     currentBuildValue, targetBuild # NoItem, targetBuild,
                     currentSummingGroup, currentRemainingItems, FALSE, <<>>, FALSE)
     ELSE singleBuild(playedCard, otherSelectedItems, targetBuild, playerHand, table,
                      currentPlayer, i + 1)

\* the messages after the subset loop found nothing
noBuildFound(playedCard, otherSelectedItems, targetBuild, playerHand) ==
  LET potentialFullTarget ==
        getBuildValue(playedCard) + SumSeq(itemValues(otherSelectedItems))
          + (IF targetBuild # NoItem THEN getItemValue(targetBuild) ELSE 0)
  IN IF /\ potentialFullTarget > 0
        /\ potentialFullTarget <= MaxBuildValue
        /\ ~ hasHoldingCard(playerHand, playedCard, potentialFullTarget)
     THEN Invalid("Invalid combination. You might need a " \o ToString(potentialFullTarget)
                    \o " in hand.")
     ELSE Invalid("Invalid build combination selected.")

validateBuild(playedCard, selectedItems, playerHand, table, currentPlayer) ==
  IF playedCard = NoCard \/ Len(selectedItems) = 0
  THEN Invalid("Select a card from hand and items from table.")
  ELSE IF ~ \A k \in DOMAIN selectedItems : HasId(selectedItems[k])
  THEN Invalid("Internal error: Invalid items selected.")
  ELSE IF isFaceCard(playedCard)
  THEN Invalid("Face cards cannot be used in builds.")
  ELSE IF \E k \in DOMAIN selectedItems : selectedItems[k].type = "pair"
  THEN Invalid("Cannot select pairs for building.")
  ELSE
  LET selectedBuilds == SelectSeq(selectedItems, LAMBDA item : item.type = "build")
      selectedCards == SelectSeq(selectedItems, LAMBDA item : item.type = "card")
      multi == IF Len(selectedBuilds) = 0 /\ Len(selectedCards) > 0
               THEN partitionCards(playedCard, selectedCards, playerHand, table,
                                   currentPlayer, 1)
               ELSE Invalid("")
      targetBuild == IF Len(selectedBuilds) = 1 THEN selectedBuilds[1] ELSE NoItem
      single == singleBuild(playedCard, selectedCards, targetBuild, playerHand, table,
                            currentPlayer, 0)
  IN IF Len(selectedBuilds) = 1 /\ selectedBuilds[1].isCompound
     THEN increaseMultiBuild(playedCard, selectedItems, selectedCards, selectedBuilds[1],
                             playerHand, table, currentPlayer)
     ELSE IF Len(selectedBuilds) > 1
     THEN combineBuilds(playedCard, selectedBuilds, selectedCards, playerHand, table,
                        currentPlayer)
     ELSE IF multi.isValid THEN multi
     ELSE IF \E k \in DOMAIN selectedCards : isFaceCard(selectedCards[k])
     THEN Invalid("Face cards cannot be used in builds.")
     ELSE IF single.isValid THEN single
     ELSE noBuildFound(playedCard, selectedCards, targetBuild, playerHand)

(***************************************************************************)
(* turns.js: handleBuild.  `nextBuild` is the module-level nextBuildId and *)
(* `clock` the value Date.now() returns during the call.                   *)
(***************************************************************************)
generateBuildId(n) == "build-" \o ToString(n)

multiBuildId(clock) == "multibuild-" \o ToString(clock)

\* buildCardsFrom that takes the cards of builds only
buildCardsFromBuildsOnly(item) ==
  IF item.type = "build" /\ item.hasCards THEN item.cards ELSE <<>>

\* the cards a summing or cascading item adds to finalBuildCards
buildCardsFrom(item) ==
  IF item.type = "card" THEN <<AsCard(item)>>
  ELSE IF item.type = "build" /\ item.hasCards THEN item.cards
  ELSE <<>>

createMultiBuild(validation, selectedItems, currentPlayer, table, clock) ==
  LET newBuildObject ==
        Item("build", multiBuildId(clock), "", "", validation.buildValue, <<>>, FALSE,
             validation.multiBuildBuilds, currentPlayer, TRUE)
      selectedIds == Ids(SelectSeq(selectedItems, HasId))
  IN TableResult(TRUE,
                 SelectSeq(table, LAMBDA item : HasId(item) /\ item.id \notin selectedIds)
                   \o <<newBuildObject>>,
                 "Player " \o ToString(currentPlayer) \o " created Multi-Build of "
                   \o ToString(validation.buildValue) \o ".")

\* the increase that writes the target back as a simple build
increaseMultiBuildAsSimple(validation, playedCard, currentPlayer, table) ==
  LET summingIds == Ids(SelectSeq(validation.summingItems, HasId))
      mapped == [k \in DOMAIN table |->
                   IF table[k].id = validation.targetBuild.id
                   THEN [table[k] EXCEPT !.controller = currentPlayer, !.isCompound = FALSE]
                   ELSE table[k]]
  IN TableResult(TRUE, SelectSeq(mapped, LAMBDA item : HasId(item) /\ item.id \notin summingIds), "")

increaseMultiBuildOnTable(validation, playedCard, currentPlayer, table) ==
  LET targetBuild == validation.targetBuild
      summingItems == validation.summingItems
      newBuild ==
        [cards |-> <<playedCard>> \o [k \in DOMAIN summingItems |-> AsCard(summingItems[k])],
         value |-> validation.buildValue]
      mapped ==
        [k \in DOMAIN table |->
           IF table[k].id = targetBuild.id
           THEN [table[k] EXCEPT !.builds = targetBuild.builds \o <<newBuild>>,
                                 !.controller = currentPlayer,
                                 !.isCompound = TRUE]
           ELSE table[k]]
      summingIds == Ids(SelectSeq(summingItems, HasId))
  IN TableResult(TRUE,
                 SelectSeq(mapped, LAMBDA item : HasId(item) /\ item.id \notin summingIds),
                 "Player " \o ToString(currentPlayer) \o " increased Multi-Build of "
                   \o ToString(validation.buildValue) \o ".")

\* the single build whose value is the played card's value alone
createOrModifySingleBuildPlayedValue(validation, playedCard, selectedItems, currentPlayer, table, nextBuild) ==
  LET targetBuild == validation.targetBuild
      modifying == validation.isModification /\ targetBuild # NoItem
      summingItems == validation.summingItems
      cascadingItems == validation.cascadingItems
      added ==
        <<playedCard>>
          \o Flatten([k \in DOMAIN summingItems |-> buildCardsFrom(summingItems[k])])
          \o Flatten([k \in DOMAIN cascadingItems |-> buildCardsFrom(cascadingItems[k])])
      addedCardSuitRanks == {suitRank(added[k]) : k \in DOMAIN added}
      finalBuildCards ==
        IF modifying /\ targetBuild.hasCards
        THEN added \o SelectSeq(targetBuild.cards,
                                LAMBDA card : suitRank(card) # ""
                                              /\ suitRank(card) \notin addedCardSuitRanks)
        ELSE added
      uniqueBuildCards == uniqueCards(finalBuildCards, {})
      newBuildObject ==
        Item("build",
             IF modifying THEN targetBuild.id ELSE generateBuildId(nextBuild),
             "", "", getBuildValue(playedCard), uniqueBuildCards, TRUE, <<>>, currentPlayer,
             FALSE)
      itemsToRemoveIds ==
        Ids(SelectSeq(selectedItems, HasId))
          \cup (IF modifying /\ HasId(targetBuild) THEN {targetBuild.id} ELSE {})
  IN TableResult(TRUE,
                 SelectSeq(table, LAMBDA item : HasId(item) /\ item.id \notin itemsToRemoveIds)
                   \o <<newBuildObject>>,
                 "Player " \o ToString(currentPlayer)
                   \o (IF validation.isModification THEN " modified " ELSE " built ")
                   \o ToString(validation.buildValue) \o ".")

createOrModifySingleBuild(validation, playedCard, selectedItems, currentPlayer, table, nextBuild) ==
  LET targetBuild == validation.targetBuild
      modifying == validation.isModification /\ targetBuild # NoItem
      summingItems == validation.summingItems
      cascadingItems == validation.cascadingItems
      added ==
        <<playedCard>>
          \o Flatten([k \in DOMAIN summingItems |-> buildCardsFrom(summingItems[k])])
          \o Flatten([k \in DOMAIN cascadingItems |-> buildCardsFrom(cascadingItems[k])])
      addedCardSuitRanks == {suitRank(added[k]) : k \in DOMAIN added}
      finalBuildCards ==
        IF modifying /\ targetBuild.hasCards
        THEN added \o SelectSeq(targetBuild.cards,
                                LAMBDA card : suitRank(card) # ""
                                              /\ suitRank(card) \notin addedCardSuitRanks)
        ELSE added
      uniqueBuildCards == uniqueCards(finalBuildCards, {})
      newBuildObject ==
        Item("build",
             IF modifying THEN targetBuild.id ELSE generateBuildId(nextBuild),
             "", "", validation.buildValue, uniqueBuildCards, TRUE, <<>>, currentPlayer,
             FALSE)
      itemsToRemoveIds ==
        Ids(SelectSeq(selectedItems, HasId))
          \cup (IF modifying /\ HasId(targetBuild) THEN {targetBuild.id} ELSE {})
  IN TableResult(TRUE,
                 SelectSeq(table, LAMBDA item : HasId(item) /\ item.id \notin itemsToRemoveIds)
                   \o <<newBuildObject>>,
                 "Player " \o ToString(currentPlayer)
                   \o (IF validation.isModification THEN " modified " ELSE " built ")
                   \o ToString(validation.buildValue) \o ".")

\* handleBuild whose refusal returns the table without the selected items
handleBuildDroppingSelection(playedCard, selectedItems, currentPlayer, table, playerHand, nextBuild, clock) ==
  LET validation == validateBuild(playedCard, selectedItems, playerHand, table, currentPlayer)
  IN IF ~ validation.isValid
     THEN TableResult(FALSE, SelectSeq(table, LAMBDA item : item.id \notin Ids(selectedItems)), validation.message)
     ELSE IF validation.isMultiBuildCreation
     THEN createMultiBuild(validation, selectedItems, currentPlayer, table, clock)
     ELSE IF validation.isMultiBuildIncrease
     THEN increaseMultiBuildOnTable(validation, playedCard, currentPlayer, table)
     ELSE createOrModifySingleBuild(validation, playedCard, selectedItems, currentPlayer, table, nextBuild)

handleBuild(playedCard, selectedItems, currentPlayer, table, playerHand, nextBuild, clock) ==
  LET validation == validateBuild(playedCard, selectedItems, playerHand, table, currentPlayer)
  IN IF ~ validation.isValid
     THEN TableResult(FALSE, table, validation.message)
     ELSE IF validation.isMultiBuildCreation
     THEN createMultiBuild(validation, selectedItems, currentPlayer, table, clock)
     ELSE IF validation.isMultiBuildIncrease
     THEN increaseMultiBuildOnTable(validation, playedCard, currentPlayer, table)
     ELSE createOrModifySingleBuild(validation, playedCard, selectedItems, currentPlayer,
                                    table, nextBuild)

\* generateBuildId runs exactly when a single build is newly created
buildIdsUsed(validation) ==
  IF /\ validation.isValid
     /\ ~ validation.isMultiBuildCreation
     /\ ~ validation.isMultiBuildIncrease
     /\ ~ (validation.isModification /\ validation.targetBuild # NoItem)
  THEN 1 ELSE 0

(***************************************************************************)
(* The game around the engine.  The caller (the UI layer, not among the    *)
(* sources) deals loose cards, passes a card of the acting player's hand   *)
(* and a selection to an operation, and on success stores the returned     *)
(* table and takes the played card out of the hand.                        *)
(***************************************************************************)
Players == {1, 2}

Deal(t, h1, h2) == [table |-> t, hands |-> [p \in Players |-> IF p = 1 THEN h1 ELSE h2]]

Deals ==
  { Deal(<<Card("C", "3"), Card("C", "5"), Card("D", "3"), Card("D", "5"), Card("C", "4")>>,
         {Card("S", "2"), Card("H", "5"), Card("H", "A")},
         {Card("D", "2"), Card("S", "5")}),
    Deal(<<Card("C", "2"), Card("C", "4"), Card("D", "K")>>,
         {Card("H", "6"), Card("H", "K"), Card("H", "2")},
         {Card("S", "K"), Card("S", "6")}),
    Deal(<<Card("C", "2"), Card("C", "5")>>,
         {Card("H", "A"), Card("H", "3"), Card("S", "A"), Card("H", "6")},
         {Card("D", "2"), Card("D", "5")}) }

NoCall ==
  [op |-> "none", playedCard |-> NoCard, selectedItems |-> <<>>, currentPlayer |-> 0,
   tableItems |-> <<>>, playerHand |-> {}, player1Score |-> 0, player2Score |-> 0,
   lastCapturer |-> 0, clock |-> 0]

Call(op, playedCard, selectedItems, currentPlayer) ==
  [op |-> op, playedCard |-> playedCard, selectedItems |-> selectedItems,
   currentPlayer |-> currentPlayer, tableItems |-> tableItems,
   playerHand |-> hand[currentPlayer], player1Score |-> p1Score,
   player2Score |-> p2Score, lastCapturer |-> lastCapturer, clock |-> now]

\* the selections a caller may pass: up to MaxSel different items, each a
\* table item or an item without an id, in any order
Selections ==
  LET pool == Range(tableItems) \cup {BadItem}
  IN {sel \in UNION {[1..n -> pool] : n \in 0..MaxSel} :
        \A i, j \in DOMAIN sel : i # j => sel[i] # sel[j]}

Init ==
  \E d \in Deals :
    /\ tableItems = [k \in DOMAIN d.table |-> CardItem(d.table[k])]
    /\ hand = d.hands
    /\ p1Score = 0
    /\ p2Score = 0
    /\ lastCapturer = 0
    /\ nextBuildId = 0
    /\ nextPairId = 0
    /\ now = 0
    /\ pc = "idle"
    /\ call = NoCall
    /\ result = NoResult
    /\ plays = 0
    /\ removedIds = {}
    /\ folded = [x \in {} |-> {}]
    /\ paired = {}
    /\ cascadeSteps = 0

\* the clock is read only when a multi-build is created; it then shows t, which
\* is not before the last value it showed
HandleBuild(p, card, sel, t) ==
  /\ pc = "idle"
  /\ plays < MaxPlays
  /\ card \in hand[p]
  /\ LET validation == validateBuild(card, sel, hand[p], tableItems, p)
     IN /\ (validation.isValid /\ validation.isMultiBuildCreation) \/ t = now
        /\ nextBuildId' = nextBuildId + buildIdsUsed(validation)
  /\ now' = t
  /\ call' = [Call("build", card, sel, p) EXCEPT !.clock = t]
  /\ result' = handleBuild(card, sel, p, tableItems, hand[p], nextBuildId, t)
  /\ pc' = "returned"
  /\ UNCHANGED <<tableItems, hand, p1Score, p2Score, lastCapturer, nextPairId,
                 plays, removedIds, folded, paired, cascadeSteps>>

HandlePair(p, card, sel) ==
  /\ pc = "idle"
  /\ plays < MaxPlays
  /\ card \in hand[p]
  /\ call' = Call("pair", card, sel, p)
  /\ result' = handlePair(card, sel, p, tableItems, hand[p], nextPairId)
  /\ nextPairId' = nextPairId
                     + pairIdsUsed(handlePair(card, sel, p, tableItems, hand[p], nextPairId), sel)
  /\ pc' = "returned"
  /\ UNCHANGED <<tableItems, hand, p1Score, p2Score, lastCapturer, nextBuildId, now,
                 plays, removedIds, folded, paired, cascadeSteps>>

HandleCapture(p, card, sel) ==
  /\ pc = "idle"
  /\ plays < MaxPlays
  /\ card \in hand[p]
  /\ call' = Call("capture", card, sel, p)
  /\ result' = handleCapture(card, sel, p, p1Score, p2Score, tableItems, lastCapturer)
  /\ pc' = "returned"
  /\ UNCHANGED <<tableItems, hand, p1Score, p2Score, lastCapturer, nextBuildId,
                 nextPairId, now, plays, removedIds, folded, paired, cascadeSteps>>

\* the physical cards a selected item stands for
physicalCards(item) ==
  IF item.type = "card" THEN {AsCard(item)}
  ELSE IF item.id \in DOMAIN folded THEN folded[item.id]
  ELSE {}

composedIds(table) ==
  {table[k].id : k \in {j \in DOMAIN table : table[j].type \in {"build", "pair"}}}

\* the caller stores what a successful call returned
Apply ==
  /\ pc = "returned"
  /\ pc' = "idle"
  /\ call' = NoCall
  /\ result' = NoResult
  /\ UNCHANGED <<nextBuildId, nextPairId, now, cascadeSteps>>
  /\ IF result.success
     THEN LET newTable == result.newTableItems
              changedIds == {x.id : x \in Range(newTable) \ Range(tableItems)}
              consumed == {call.playedCard}
                            \cup UNION {physicalCards(call.selectedItems[k]) :
                                          k \in DOMAIN call.selectedItems}
          IN /\ tableItems' = newTable
             /\ plays' = plays + 1
             /\ hand' = [hand EXCEPT ![call.currentPlayer] = @ \ {call.playedCard}]
             /\ removedIds' = removedIds \cup (composedIds(tableItems) \ composedIds(newTable))
             /\ folded' =
                  [x \in (DOMAIN folded \cap Ids(newTable)) \cup changedIds |->
                     IF x \in changedIds
                     THEN (IF x \in DOMAIN folded THEN folded[x] ELSE {}) \cup consumed
                     ELSE folded[x]]
             /\ paired' = IF call.op = "pair" THEN paired \cup consumed ELSE paired
             /\ IF call.op = "capture"
                THEN /\ p1Score' = result.newP1Score
                     /\ p2Score' = result.newP2Score
                     /\ lastCapturer' = result.newLastCapturer
                ELSE UNCHANGED <<p1Score, p2Score, lastCapturer>>
     ELSE UNCHANGED <<tableItems, hand, p1Score, p2Score, lastCapturer, plays, removedIds,
                      folded, paired>>

Next ==
  \/ \E p \in Players : \E card \in hand[p] : \E sel \in Selections :
       \E t \in now..MaxNow : HandleBuild(p, card, sel, t)
  \/ \E p \in Players : \E card \in hand[p] : \E sel \in Selections : HandlePair(p, card, sel)
  \/ \E p \in Players : \E card \in hand[p] : \E sel \in Selections : HandleCapture(p, card, sel)
  \/ Apply

Spec == Init /\ [][Next]_vars

(***************************************************************************)
(* Properties.                                                             *)
(***************************************************************************)
Returned(op) == pc = "returned" /\ call.op = op

\* the validation handleBuild obtained for the recorded call
callValidation ==
  validateBuild(call.playedCard, call.selectedItems, call.playerHand, call.tableItems,
                call.currentPlayer)

DistinctIds(table) ==
  \A i, j \in DOMAIN table : i # j => table[i].id # table[j].id

NoDuplicateBuilds(table) ==
  \A i, j \in DOMAIN table :
    (/\ i # j
     /\ table[i].type = "build"
     /\ table[j].type = "build"
     /\ table[i].controller = table[j].controller)
      => table[i].value # table[j].value

AllCards(item) ==
  IF item.hasCards THEN item.cards
  ELSE Flatten([k \in DOMAIN item.builds |-> item.builds[k].cards])

BuildsOn(table) == {x \in Range(table) : x.type = "build"}

(***************************************************************************)
(* Single calls of handleCapture.  The positions are a table of loose      *)
(* cards, the tables handleBuild returns for a simple build and for a      *)
(* multi-build made from loose cards, and the empty table; the caller may  *)
(* pass no card, items without an id and selections of up to               *)
(* MaxCaptureSel items.                                                    *)
(***************************************************************************)
MaxCaptureSel == 3

Position(t, h1, h2, s1, s2, lc, nb) ==
  [table |-> t, hands |-> [p \in Players |-> IF p = 1 THEN h1 ELSE h2],
   p1Score |-> s1, p2Score |-> s2, lastCapturer |-> lc, nextBuildId |-> nb]

LooseTable(cards) == [k \in DOMAIN cards |-> CardItem(cards[k])]

CapturePositions ==
  { Position(LooseTable(<<Card("C", "2"), Card("C", "3"), Card("D", "3"), Card("D", "5"),
                          Card("S", "K")>>),
             {Card("H", "5"), Card("H", "K")}, {Card("S", "5")}, 0, 0, 0, 0),
    Position(handleBuild(Card("S", "2"), <<CardItem(Card("C", "3"))>>, 2,
                         LooseTable(<<Card("C", "3"), Card("C", "4"), Card("C", "A"),
                                      Card("D", "5")>>),
                         {Card("S", "2"), Card("S", "5")}, 0, 0).newTableItems,
             {Card("H", "5"), Card("H", "4")}, {Card("S", "5")}, 0, 1, 2, 1),
    Position(handleBuild(Card("S", "2"),
                         <<CardItem(Card("C", "3")), CardItem(Card("C", "5"))>>, 1,
                         LooseTable(<<Card("C", "3"), Card("C", "5"), Card("D", "7")>>),
                         {Card("S", "2"), Card("H", "5")}, 0, 0).newTableItems,
             {Card("H", "5")}, {Card("S", "5"), Card("S", "7")}, 0, 2, 2, 0),
    Position(handleBuild(Card("S", "2"), <<CardItem(Card("C", "4"))>>, 2,
                         LooseTable(<<Card("C", "4"), Card("D", "6"), Card("C", "3")>>),
                         {Card("S", "2"), Card("S", "6")}, 0, 0).newTableItems,
             {Card("H", "6")}, {Card("S", "6")}, 0, 0, 0, 1),
    Position(<<>>, {Card("H", "5")}, {Card("S", "5")}, 1, 1, 1, 0),
    Position(LooseTable(<<Card("C", "K"), Card("D", "K"), Card("C", "5"), Card("D", "5")>>),
             {Card("H", "K"), Card("H", "5")}, {Card("S", "K")}, 0, 0, 0, 0),
    Position(handlePair(Card("S", "K"), <<CardItem(Card("C", "K"))>>, 2,
                        LooseTable(<<Card("C", "K"), Card("D", "K"), Card("C", "5")>>),
                        {Card("S", "K"), Card("S", "5")}, 0).newTableItems,
             {Card("H", "K"), Card("H", "5")}, {Card("S", "5")}, 0, 0, 0, 0) }

CaptureSelections ==
  LET pool == Range(tableItems) \cup {BadItem}
  IN {sel \in UNION {[1..n -> pool] : n \in 0..MaxCaptureSel} :
        \A i, j \in DOMAIN sel : i # j => sel[i] # sel[j]}

InitCapture ==
  \E d \in CapturePositions :
    /\ tableItems = d.table
    /\ hand = d.hands
    /\ p1Score = d.p1Score
    /\ p2Score = d.p2Score
    /\ lastCapturer = d.lastCapturer
    /\ nextBuildId = d.nextBuildId
    /\ nextPairId = 0
    /\ now = 0
    /\ pc = "idle"
    /\ call = NoCall
    /\ result = NoResult
    /\ plays = 0
    /\ removedIds = {}
    /\ folded = [x \in {} |-> {}]
    /\ paired = {}
    /\ cascadeSteps = 0

CaptureCall(p, card, sel) ==
  /\ pc = "idle"
  /\ call' = Call("capture", card, sel, p)
  /\ result' = handleCapture(card, sel, p, p1Score, p2Score, tableItems, lastCapturer)
  /\ pc' = "returned"
  /\ UNCHANGED <<tableItems, hand, p1Score, p2Score, lastCapturer, nextBuildId,
                 nextPairId, now, plays, removedIds, folded, paired, cascadeSteps>>

NextCapture ==
  \E p \in Players : \E card \in hand[p] \cup {NoCard} : \E sel \in CaptureSelections :
    CaptureCall(p, card, sel)

SpecCapture == InitCapture /\ [][NextCapture]_vars

(***************************************************************************)
(* Single calls of handleBuild on given positions, with selections long    *)
(* enough for a partition into three groups.                               *)
(***************************************************************************)
MaxBuildSel == 5

BuildPositions ==
  { Position(LooseTable(<<Card("C", "2"), Card("D", "2"), Card("C", "4"), Card("D", "4"),
                          Card("H", "4")>>),
             {Card("S", "2"), Card("S", "6")}, {Card("H", "6")}, 0, 0, 0, 0),
    Position(handleBuild(Card("H", "A"), <<CardItem(Card("C", "2"))>>, 1,
                         LooseTable(<<Card("C", "2"), Card("C", "5"), Card("C", "4")>>),
                         {Card("H", "A"), Card("H", "3")}, 0, 0).newTableItems,
             {Card("H", "3"), Card("S", "A"), Card("H", "4"), Card("D", "A")},
             {Card("D", "2"), Card("D", "5")}, 0, 0, 0, 1),
    Position(handleBuild(Card("D", "2"), <<CardItem(Card("D", "3"))>>, 2,
                         handleBuild(Card("H", "A"), <<CardItem(Card("C", "4"))>>, 1,
                                     LooseTable(<<Card("C", "4"), Card("D", "3"), Card("C", "2")>>),
                                     {Card("H", "A"), Card("H", "5")}, 0, 0).newTableItems,
                         {Card("D", "2"), Card("D", "5")}, 1, 0).newTableItems,
             {Card("H", "5"), Card("S", "5")}, {Card("D", "5")}, 0, 0, 0, 2) }

BuildSelections ==
  LET pool == Range(tableItems) \cup {BadItem}
  IN {sel \in UNION {[1..n -> pool] : n \in 0..MaxBuildSel} :
        \A i, j \in DOMAIN sel : i # j => sel[i] # sel[j]}

InitBuild ==
  \E d \in BuildPositions :
    /\ tableItems = d.table
    /\ hand = d.hands
    /\ p1Score = d.p1Score
    /\ p2Score = d.p2Score
    /\ lastCapturer = d.lastCapturer
    /\ nextBuildId = d.nextBuildId
    /\ nextPairId = 0
    /\ now = 0
    /\ pc = "idle"
    /\ call = NoCall
    /\ result = NoResult
    /\ plays = 0
    /\ removedIds = {}
    /\ folded = [x \in {} |-> {}]
    /\ paired = {}
    /\ cascadeSteps = 0

BuildCall(p, card, sel) ==
  /\ pc = "idle"
  /\ call' = Call("build", card, sel, p)
  /\ result' = handleBuild(card, sel, p, tableItems, hand[p], nextBuildId, now)
  /\ pc' = "returned"
  /\ UNCHANGED <<tableItems, hand, p1Score, p2Score, lastCapturer, nextBuildId,
                 nextPairId, now, plays, removedIds, folded, paired, cascadeSteps>>

NextBuild ==
  \E p \in Players : \E card \in hand[p] : \E sel \in BuildSelections : BuildCall(p, card, sel)

SpecBuild == InitBuild /\ [][NextBuild]_vars

(***************************************************************************)
(* The cascading handleCapture of the earlier turns.js (part_010).  After   *)
(* the capture of the selection the played card is tried again on the      *)
(* table that is left, and the first capture set found is taken, until     *)
(* none is found.  One pass of the loop is one step of the model; `result` *)
(* holds the function's local variables while the loop runs.  Every build  *)
(* and pair of that version carries a cards array, and so does every item  *)
(* of the positions below.                                                 *)
(***************************************************************************)
MaxCascade == 8

\* the while loop of the selection check: takes the first option that lies
\* within the ids still uncovered, until none does
RECURSIVE remainingSelectedItemIds(_, _)
remainingSelectedItemIds(remaining, currentOptions) ==
  LET usable == {i \in DOMAIN currentOptions :
                   /\ \A k \in DOMAIN currentOptions[i] : HasId(currentOptions[i][k])
                   /\ Ids(currentOptions[i]) \subseteq remaining}
  IN IF remaining = {} \/ usable = {} THEN remaining
     ELSE LET optionUsedIndex == CHOOSE i \in usable : \A j \in usable : i <= j
          IN remainingSelectedItemIds(remaining \ Ids(currentOptions[optionUsedIndex]), SubSeq(currentOptions, 1, optionUsedIndex - 1) \o SubSeq(currentOptions, optionUsedIndex + 1, Len(currentOptions)))

isValidSelectionOfOptions(selectedItems, validCaptureOptions) ==
  IF Len(selectedItems) = 0 \/ Len(validCaptureOptions) = 0 THEN FALSE
  ELSE IF ~ \A k \in DOMAIN selectedItems : HasId(selectedItems[k]) THEN FALSE
  ELSE remainingSelectedItemIds(Ids(selectedItems), validCaptureOptions) = {}

\* a single capture that leaves the captured items on the table
performCaptureKeepingTable(card, selection, p1Score_, p2Score_, table, currentPlayer, newLastCapturer) ==
  IF ~ isValidSelectionOfOptions(selection, getValidCaptures(card, table))
  THEN CaptureResult(FALSE, "Invalid capture selection.", p1Score_, p2Score_, table, newLastCapturer, <<>>)
  ELSE CaptureResult(TRUE, "", p1Score_, p2Score_, table, currentPlayer, <<card>>)

\* one capture: checks the selection against the capture sets of the table,
\* collects the cards, adds one point per captured card and removes the items
performCapture(card, selection, p1Score_, p2Score_, table, currentPlayer, newLastCapturer) ==
  LET allValidOptions == getValidCaptures(card, table)
      isSelectionValid == isValidSelectionOfOptions(selection, allValidOptions)
      localCapturedCards ==
        <<card>> \o Flatten([k \in DOMAIN selection |->
                               IF selection[k].type = "card" THEN <<AsCard(selection[k])>>
                               ELSE IF selection[k].type \in {"build", "pair"}
                               THEN selection[k].cards
                               ELSE <<>>])
      pointsEarned == Len(localCapturedCards) - 1
      selectedItemIds == Ids(selection)
  IN IF ~ isSelectionValid
     THEN CaptureResult(FALSE, "Invalid capture selection.", p1Score_, p2Score_, table, newLastCapturer, <<>>)
     ELSE CaptureResult(TRUE, "",
                        IF currentPlayer = 1 THEN p1Score_ + pointsEarned ELSE p1Score_,
                        IF currentPlayer = 1 THEN p2Score_ ELSE p2Score_ + pointsEarned,
                        SelectSeq(table, LAMBDA item : item.id \notin selectedItemIds),
                        currentPlayer, localCapturedCards)

\* the local variables after one successful performCapture
afterCapture(locals, captureResult) ==
  [locals EXCEPT !.newP1Score = captureResult.newP1Score,
                 !.newP2Score = captureResult.newP2Score,
                 !.newTableItems = captureResult.newTableItems,
                 !.newLastCapturer = captureResult.newLastCapturer,
                 !.capturedCards = locals.capturedCards \o captureResult.capturedCards]

\* handleCapture up to the loop: the capture of the selection
initialCapture(playedCard, selectedItems, currentPlayer, player1Score, player2Score, table, lastCap) ==
  LET initialMessage == "Player " \o ToString(currentPlayer) \o " captured "
                          \o ToString(Len(selectedItems)) \o " item(s)."
      locals == CaptureResult(TRUE, initialMessage, player1Score, player2Score, table, lastCap, <<playedCard>>)
      captureResult == performCapture(playedCard, selectedItems, player1Score, player2Score, table, currentPlayer, lastCap)
  IN IF ~ captureResult.success
     THEN CaptureResult(FALSE, "Invalid capture selection.", player1Score, player2Score, table, lastCap, <<>>)
     ELSE afterCapture(locals, captureResult)

CascadePositions ==
  { Position(LooseTable(<<Card("C", "A"), Card("C", "4"), Card("C", "2"), Card("C", "3"),
                          Card("D", "5"), Card("S", "K")>>),
             {Card("H", "5"), Card("H", "K")}, {Card("S", "5")}, 0, 0, 0, 0),
    Position(handleBuild(Card("S", "2"), <<CardItem(Card("C", "3"))>>, 2,
                         LooseTable(<<Card("C", "3"), Card("C", "4"), Card("C", "A"),
                                      Card("D", "5")>>),
                         {Card("S", "2"), Card("S", "5")}, 0, 0).newTableItems,
             {Card("H", "5"), Card("H", "4")}, {Card("S", "5")}, 0, 1, 2, 1),
    Position(handlePair(Card("H", "5"), <<CardItem(Card("C", "5"))>>, 1,
                        LooseTable(<<Card("C", "5"), Card("D", "5"), Card("C", "2"),
                                     Card("C", "3")>>),
                        {Card("H", "5"), Card("H", "2")}, 0).newTableItems,
             {Card("H", "2")}, {Card("S", "5"), Card("S", "3")}, 0, 0, 0, 0) }

InitCascade ==
  \E d \in CascadePositions :
    /\ tableItems = d.table
    /\ hand = d.hands
    /\ p1Score = d.p1Score
    /\ p2Score = d.p2Score
    /\ lastCapturer = d.lastCapturer
    /\ nextBuildId = d.nextBuildId
    /\ nextPairId = 0
    /\ now = 0
    /\ pc = "idle"
    /\ call = NoCall
    /\ result = NoResult
    /\ plays = 0
    /\ removedIds = {}
    /\ folded = [x \in {} |-> {}]
    /\ paired = {}
    /\ cascadeSteps = 0

\* the call: the capture of the selection; a refused selection returns at once
CascadeCall(p, card, sel) ==
  /\ pc = "idle"
  /\ call' = Call("capture", card, sel, p)
  /\ result' = initialCapture(card, sel, p, p1Score, p2Score, tableItems, lastCapturer)
  /\ pc' = IF result'.success THEN "cascading" ELSE "returned"
  /\ UNCHANGED <<tableItems, hand, p1Score, p2Score, lastCapturer, nextBuildId,
                 nextPairId, now, plays, removedIds, folded, paired, cascadeSteps>>

\* one pass of the loop that finds a capture set and takes the first
CascadeCapture ==
  /\ pc = "cascading"
  /\ cascadeSteps < MaxCascade
  /\ LET newValidOptions == getValidCaptures(call.playedCard, result.newTableItems)
     IN /\ Len(newValidOptions) # 0
        /\ LET cascadingSelection == newValidOptions[1]
               captureResult == performCapture(call.playedCard, cascadingSelection, result.newP1Score, result.newP2Score, result.newTableItems, call.currentPlayer, result.newLastCapturer)
           IN /\ result' = IF captureResult.success THEN afterCapture(result, captureResult) ELSE result
              /\ cascadeSteps' = IF captureResult.success THEN cascadeSteps + 1 ELSE cascadeSteps
              /\ pc' = IF captureResult.success THEN "cascading" ELSE "returned"
  /\ UNCHANGED <<tableItems, hand, p1Score, p2Score, lastCapturer, nextBuildId,
                 nextPairId, now, call, plays, removedIds, folded, paired>>

\* the pass that finds no capture set: the loop ends and the function returns
CascadeReturn ==
  /\ pc = "cascading"
  /\ Len(getValidCaptures(call.playedCard, result.newTableItems)) = 0
  /\ pc' = "returned"
  /\ UNCHANGED <<tableItems, hand, p1Score, p2Score, lastCapturer, nextBuildId,
                 nextPairId, now, call, result, plays, removedIds, folded, paired,
                 cascadeSteps>>

NextCascade ==
  \/ \E p \in Players : \E card \in hand[p] \cup {NoCard} : \E sel \in CaptureSelections :
       CascadeCall(p, card, sel)
  \/ CascadeCapture
  \/ CascadeReturn

SpecCascade == InitCascade /\ [][NextCascade]_vars

(***************************************************************************)
(* C1.  Whenever handleCapture rejects a call (no played card, a selected  *)
(* item without an id, a selection the capture sets do not cover, or a     *)
(* selected build or pair of the other player), the result has             *)
(* success = false, newTableItems is the table that was passed in, the two *)
(* scores and the last capturer are the ones passed in, and capturedCards  *)
(* is empty.                                                               *)
(***************************************************************************)
C1_RejectedCaptureReturnsInputs ==
  (Returned("capture") /\ ~ result.success) =>
    /\ result.keys = CaptureKeys
    /\ result.newTableItems = call.tableItems
    /\ result.newP1Score = call.player1Score
    /\ result.newP2Score = call.player2Score
    /\ result.newLastCapturer = call.lastCapturer
    /\ result.capturedCards = <<>>

\* a capture rejected for ownership although the selection is a capture set
\* of a non-empty table
C1_Witness ==
  /\ Returned("capture")
  /\ ~ result.success
  /\ result.message = "Cannot capture Builds or Pairs you don't control."
  /\ isValidMultiCaptureSelection(call.playedCard, call.selectedItems, call.tableItems)
  /\ Len(call.tableItems) > Len(call.selectedItems)
  /\ call.lastCapturer # call.currentPlayer

(***************************************************************************)
(* C2.  handleCapture adds exactly 1 to the capturing player's score and   *)
(* nothing to the other player's when the capture succeeds, the returned   *)
(* table is empty and the table passed in was not; in every other case     *)
(* both scores come back unchanged.                                        *)
(***************************************************************************)
C2_SweepAddsExactlyOne ==
  Returned("capture") =>
    LET swept == /\ result.success
                 /\ Len(result.newTableItems) = 0
                 /\ Len(call.tableItems) > 0
        gain1 == IF swept /\ call.currentPlayer = 1 THEN 1 ELSE 0
        gain2 == IF swept /\ call.currentPlayer = 2 THEN 1 ELSE 0
    IN /\ result.newP1Score = call.player1Score + gain1
       /\ result.newP2Score = call.player2Score + gain2

\* a capture that clears a table of loose cards
C2_Witness ==
  /\ Returned("capture")
  /\ result.success
  /\ Len(call.tableItems) > 0
  /\ Len(result.newTableItems) = 0
  /\ result.newP1Score + result.newP2Score = call.player1Score + call.player2Score + 1

(***************************************************************************)
(* C10.  For a non-empty selection, isValidMultiCaptureSelection accepts   *)
(* exactly when one or more of the capture sets getValidCaptures generates *)
(* for the played card have, as the union of their item ids, the ids of    *)
(* the selection; the sets used may overlap.  handleCapture answers        *)
(* "Invalid capture selection." exactly when a selection of items with ids *)
(* is not accepted.                                                        *)
(***************************************************************************)
C10_Covers(options, selectedItems) ==
  \E used \in SUBSET DOMAIN options :
    /\ used # {}
    /\ UNION {Ids(options[k]) : k \in used} = Ids(selectedItems)

C10_AcceptedIffCovered ==
  (Returned("capture") /\ call.playedCard # NoCard /\ Len(call.selectedItems) > 0) =>
    LET accepted == isValidMultiCaptureSelection(call.playedCard, call.selectedItems,
                                                 call.tableItems)
        covered == C10_Covers(getValidCaptures(call.playedCard, call.tableItems),
                              call.selectedItems)
    IN /\ accepted <=> covered
       /\ (\A k \in DOMAIN call.selectedItems : HasId(call.selectedItems[k]))
            => (result.message = "Invalid capture selection." <=> ~ covered)

\* an accepted selection of three items that only two overlapping capture
\* sets cover
C10_Witness ==
  /\ Returned("capture")
  /\ Len(call.selectedItems) = 3
  /\ isValidMultiCaptureSelection(call.playedCard, call.selectedItems, call.tableItems)
  /\ LET options == getValidCaptures(call.playedCard, call.tableItems)
     IN /\ \A k \in DOMAIN options : Ids(options[k]) # Ids(call.selectedItems)
        /\ \E i, j \in DOMAIN options :
             /\ Ids(options[i]) \cap Ids(options[j]) # {}
             /\ Ids(options[i]) \cup Ids(options[j]) = Ids(call.selectedItems)

(***************************************************************************)
(* C3.  After any sequence of successful calls from a table without        *)
(* builds, no player controls two builds of the same value on the table.   *)
(***************************************************************************)
C3_NoPlayerControlsTwoBuildsOfOneValue == NoDuplicateBuilds(tableItems)

(***************************************************************************)
(* C4.  When a build or a pair is captured, capturedCards holds the played *)
(* card and every card folded into the selected items when they were       *)
(* created and each time they were modified, each card once.               *)
(***************************************************************************)
C4_CaptureReturnsEveryFoldedCard ==
  (/\ Returned("capture")
   /\ result.success
   /\ \E k \in DOMAIN call.selectedItems : call.selectedItems[k].type \in {"build", "pair"})
    => /\ Range(result.capturedCards)
            = {call.playedCard}
                \cup UNION {physicalCards(call.selectedItems[k]) : k \in DOMAIN call.selectedItems}
       /\ Cardinality(Range(result.capturedCards)) = Len(result.capturedCards)

(***************************************************************************)
(* C5.  After every successful handleBuild, the build placed on the table  *)
(* has a value in 1..10 that equals the sum of the build values of all the *)
(* cards it contains.                                                      *)
(***************************************************************************)
C5_PlacedBuilds ==
  {x \in BuildsOn(result.newTableItems) : x \notin Range(call.tableItems)}

C5_BuildValueIsSumOfItsCards ==
  (Returned("build") /\ result.success) =>
    \A b \in C5_PlacedBuilds :
      /\ b.value \in 1..10
      /\ b.value = SumSeq(cardValues(AllCards(b)))

(***************************************************************************)
(* C6.  validateBuild answers isValid = true only if the hand holds a card *)
(* other than the played card whose build value is the returned            *)
(* buildValue, whichever case of the validation accepts the build.         *)
(***************************************************************************)
C6_ValidBuildHasHoldingCard ==
  (Returned("build") /\ callValidation.isValid) =>
    \E handCard \in call.playerHand :
      /\ handCard # call.playedCard
      /\ getBuildValue(handCard) = callValidation.buildValue

\* a valid increase of a multi-build, the holding card being the only other
\* card of the hand
C6_Witness ==
  /\ Returned("build")
  /\ result.success
  /\ callValidation.isMultiBuildIncrease
  /\ Cardinality({c \in call.playerHand :
                    c # call.playedCard /\ getBuildValue(c) = callValidation.buildValue}) = 1

(***************************************************************************)
(* C7.  In every table an operation returns, the item ids are pairwise     *)
(* distinct.                                                               *)
(***************************************************************************)
C7_ReturnedIdsDistinct ==
  (pc = "returned" /\ "newTableItems" \in result.keys) => DistinctIds(result.newTableItems)

(***************************************************************************)
(* C8.  Once the id of a build or pair has left the table, no table an     *)
(* operation returns later in the game holds an item with that id.         *)
(***************************************************************************)
C8_RemovedIdsNeverReturn ==
  (pc = "returned" /\ "newTableItems" \in result.keys)
    => removedIds \cap Ids(result.newTableItems) = {}

(***************************************************************************)
(* C9.  validateBuild rejects every call whose played card is J, Q or K,   *)
(* whose selection holds a loose J, Q or K, or whose selection holds a     *)
(* pair, and handleBuild then returns the table it was given; no build on  *)
(* the table holds a face card or a card that has been in a pair.          *)
(***************************************************************************)
C9_SelectsFaceOrPair ==
  \/ call.playedCard.rank \in FaceRanks
  \/ \E k \in DOMAIN call.selectedItems :
       \/ call.selectedItems[k].type = "card" /\ call.selectedItems[k].rank \in FaceRanks
       \/ call.selectedItems[k].type = "pair"

C9_NoFaceCardOrPairInBuilds ==
  /\ (Returned("build") /\ C9_SelectsFaceOrPair)
       => /\ ~ callValidation.isValid
          /\ ~ result.success
          /\ result.newTableItems = call.tableItems
  /\ \A b \in BuildsOn(tableItems) :
       \A c \in Range(AllCards(b)) : c.rank \notin FaceRanks /\ c \notin paired

\* a build that selects a pair lying on the table beside a build, refused
C9_Witness ==
  /\ Returned("build")
  /\ call.playedCard.rank \notin FaceRanks
  /\ \E k \in DOMAIN call.selectedItems : call.selectedItems[k].type = "pair"
  /\ \A k \in DOMAIN call.selectedItems : HasId(call.selectedItems[k])
  /\ BuildsOn(call.tableItems) # {}
  /\ ~ result.success

(***************************************************************************)
(* C11.  handleCapture rejects every selection that holds a build or a     *)
(* pair whose controller is not the acting player, also when the capture   *)
(* sets cover the selection; a covered selection of items with ids in      *)
(* which every build and pair is the acting player's own, loose cards      *)
(* whatever their number, is captured.                                     *)
(***************************************************************************)
C11_ForeignItemSelected ==
  \E k \in DOMAIN call.selectedItems :
    /\ call.selectedItems[k].type \in {"build", "pair"}
    /\ call.selectedItems[k].controller # call.currentPlayer

C11_ForeignBuildOrPairRejected ==
  Returned("capture") =>
    /\ C11_ForeignItemSelected => ~ result.success
    /\ (/\ call.playedCard # NoCard
        /\ \A k \in DOMAIN call.selectedItems : HasId(call.selectedItems[k])
        /\ isValidMultiCaptureSelection(call.playedCard, call.selectedItems, call.tableItems)
        /\ ~ C11_ForeignItemSelected)
         => result.success

\* a covered selection of a loose card and the other player's pair, refused
C11_Witness ==
  /\ Returned("capture")
  /\ isValidMultiCaptureSelection(call.playedCard, call.selectedItems, call.tableItems)
  /\ \E k \in DOMAIN call.selectedItems : call.selectedItems[k].type = "card"
  /\ \E k \in DOMAIN call.selectedItems :
       /\ call.selectedItems[k].type = "pair"
       /\ call.selectedItems[k].controller # call.currentPlayer
  /\ ~ result.success
  /\ result.message = "Cannot capture Builds or Pairs you don't control."

(***************************************************************************)
(* C12.  Scenario C: a 6 is played, the table holds a build of value 6     *)
(* and a loose 6, and both are selected.  The build alone and the loose 6  *)
(* alone are capture sets and the selection of both is covered; the call   *)
(* succeeds and removes both only when the acting player controls the      *)
(* build, and is refused with the table unchanged when the build is the    *)
(* other player's.                                                         *)
(***************************************************************************)
C12_Build == CHOOSE b \in Range(call.selectedItems) : b.type = "build"

C12_Loose == CHOOSE c \in Range(call.selectedItems) : c.type = "card"

C12_ScenarioC ==
  /\ Returned("capture")
  /\ call.playedCard # NoCard
  /\ call.playedCard.rank = "6"
  /\ Len(call.selectedItems) = 2
  /\ \E b \in Range(call.selectedItems) : b.type = "build" /\ b.value = 6
  /\ \E c \in Range(call.selectedItems) : c.type = "card" /\ c.rank = "6"
  /\ Range(call.selectedItems) \subseteq Range(call.tableItems)

\* the statement as written: the capture of the other player's build succeeds
C12_OpponentBuildCaptured ==
  (C12_ScenarioC /\ C12_Build.controller # call.currentPlayer) =>
    /\ result.success
    /\ C12_Build \notin Range(result.newTableItems)
    /\ C12_Loose \notin Range(result.newTableItems)

C12_BothOptionsOwnBuildCaptured ==
  C12_ScenarioC =>
    LET options == Range(getValidCaptures(call.playedCard, call.tableItems))
    IN /\ <<C12_Build>> \in options
       /\ \E set \in options : \A k \in DOMAIN set : set[k].type = "card" /\ set[k].rank = "6"
       /\ isValidMultiCaptureSelection(call.playedCard, call.selectedItems, call.tableItems)
       /\ result.success <=> C12_Build.controller = call.currentPlayer
       /\ result.success =>
            /\ C12_Build \notin Range(result.newTableItems)
            /\ C12_Loose \notin Range(result.newTableItems)
       /\ ~ result.success => result.newTableItems = call.tableItems

C12_Witness ==
  /\ C12_ScenarioC
  /\ C12_Build.controller # call.currentPlayer
  /\ ~ result.success

(***************************************************************************)
(* C13.  After a successful handleCapture no capture set for the played    *)
(* card remains on the returned table.                                     *)
(***************************************************************************)
C13_NoCaptureSetRemains ==
  (Returned("capture") /\ result.success) =>
    getValidCaptures(call.playedCard, result.newTableItems) = <<>>

(***************************************************************************)
(* C14.  The cascading loop ends for every played card and table: every    *)
(* pass that captures leaves fewer items on the table, so the passes made  *)
(* plus the items left never exceed the items the table held at the call   *)
(* and the bound on the passes is never what stops the loop; the loop is   *)
(* left only when no capture set is found, and the function then returns   *)
(* success.                                                                *)
(***************************************************************************)
C14_CascadeTerminates ==
  /\ [][(pc = "cascading" /\ pc' = "cascading")
          => Len(result'.newTableItems) < Len(result.newTableItems)]_vars
  /\ [](pc # "idle" => cascadeSteps + Len(result.newTableItems) <= Len(call.tableItems))
  /\ [](pc = "cascading" => cascadeSteps < MaxCascade)
  /\ [][(pc = "cascading" /\ pc' = "returned")
          => /\ result'.success
             /\ getValidCaptures(call.playedCard, result'.newTableItems) = <<>>]_vars

\* a call whose loop took two capture sets one after the other and returned
C14_Witness ==
  /\ pc = "returned"
  /\ result.success
  /\ cascadeSteps >= 2
  /\ getValidCaptures(call.playedCard, result.newTableItems) = <<>>

(***************************************************************************)
(* C15.  Whenever a loose card or a pair of the played card's rank lies on *)
(* the table, getValidCaptures returns exactly one set made of all the     *)
(* loose cards and all the pairs of that rank, whoever controls the pairs, *)
(* and every returned set that holds a pair is that set.                   *)
(***************************************************************************)
C15_SameRank(card) ==
  {item \in Range(tableItems) : item.type \in {"card", "pair"} /\ item.rank = card.rank}

C15_RankMatchSetIsWhole ==
  pc = "idle" =>
    \A p \in Players : \A card \in hand[p] :
      LET sets == getValidCaptures(card, tableItems)
      IN C15_SameRank(card) # {} =>
           /\ Cardinality({k \in DOMAIN sets : Range(sets[k]) = C15_SameRank(card)}) = 1
           /\ \A k \in DOMAIN sets :
                /\ Range(sets[k]) = C15_SameRank(card) => Len(sets[k]) = Cardinality(C15_SameRank(card))
                /\ (\E j \in DOMAIN sets[k] : sets[k][j].type = "pair")
                     => Range(sets[k]) = C15_SameRank(card)

\* a player holds a 5 while a pair of 5s made by the other player and a
\* loose 5 lie on the table, and the two are offered as one set
C15_Witness ==
  /\ pc = "idle"
  /\ \E p \in Players : \E card \in hand[p] :
       /\ \E item \in C15_SameRank(card) : item.type = "pair" /\ item.controller # p
       /\ \E item \in C15_SameRank(card) : item.type = "card"
       /\ \E k \in DOMAIN getValidCaptures(card, tableItems) :
            Range(getValidCaptures(card, tableItems)[k]) = C15_SameRank(card)

(***************************************************************************)
(* C16.  For a played Ace or 2-10 every build on the table whose value is  *)
(* the played card's value (Ace 1) is returned by getValidCaptures as a    *)
(* capture set of its own; for a played J, Q or K no returned set holds a  *)
(* build.                                                                  *)
(***************************************************************************)
C16_MatchingBuilds(card) ==
  {item \in Range(tableItems) : item.type = "build" /\ item.value = combinationValue(card.rank)}

C16_EveryMatchingBuildIsAnOption ==
  pc = "idle" =>
    \A p \in Players : \A card \in hand[p] :
      LET sets == getValidCaptures(card, tableItems)
      IN IF card.rank \in FaceRanks
         THEN \A k \in DOMAIN sets : \A j \in DOMAIN sets[k] : sets[k][j].type # "build"
         ELSE \A b \in C16_MatchingBuilds(card) : \E k \in DOMAIN sets : sets[k] = <<b>>

(***************************************************************************)
(* C17.  getValidCaptures returns, each once (no two returned sets have    *)
(* the same ids), exactly the rank-match set, the single matching builds   *)
(* and, for a played Ace or 2-10, the non-empty sets of loose non-face     *)
(* cards and builds whose values sum to the played card's value; no pair   *)
(* and no face card is in a set of two or more items of different ranks;   *)
(* on an empty table nothing is returned.                                  *)
(***************************************************************************)
C17_SumOf(S) == SumSeq([k \in 1..Cardinality(S) |-> captureItemValue((CHOOSE f \in [1..Cardinality(S) -> S] : \A i, j \in 1..Cardinality(S) : i # j => f[i] # f[j])[k])])

C17_Expected(card) ==
  LET combinable == {item \in Range(tableItems) :
                       \/ item.type = "card" /\ item.rank \notin FaceRanks
                       \/ item.type = "build"}
  IN (IF C15_SameRank(card) # {} THEN {C15_SameRank(card)} ELSE {})
       \cup (IF card.rank \in FaceRanks THEN {}
             ELSE {S \in SUBSET combinable : S # {} /\ C17_SumOf(S) = combinationValue(card.rank)})

C17_ExactlyTheCaptureSets ==
  pc = "idle" =>
    \A p \in Players : \A card \in hand[p] :
      LET sets == getValidCaptures(card, tableItems)
      IN /\ {Range(sets[k]) : k \in DOMAIN sets} = C17_Expected(card)
         /\ \A k \in DOMAIN sets : Cardinality(Range(sets[k])) = Len(sets[k])
         /\ \A j, k \in DOMAIN sets : j # k => Ids(sets[j]) # Ids(sets[k])
         /\ tableItems = <<>> => sets = <<>>

(***************************************************************************)
(* C18.  A new build from loose non-face cards is accepted whenever, for   *)
(* some T in 1..10, the played card and the selected cards can be split    *)
(* into two or more groups that each sum to T, the player holds another    *)
(* card of value T and controls no build of value T; and listing the same  *)
(* selected cards in another order gives the same outcome.                 *)
(***************************************************************************)
C18_Sum(S) == SumSeq([k \in 1..Cardinality(S) |-> getBuildValue((CHOOSE f \in [1..Cardinality(S) -> S] : \A i, j \in 1..Cardinality(S) : i # j => f[i] # f[j])[k])])

RECURSIVE C18_CanSplit(_, _)
C18_CanSplit(S, T) ==
  \/ S = {}
  \/ \E G \in SUBSET S : G # {} /\ C18_Sum(G) = T /\ C18_CanSplit(S \ G, T)

C18_LooseNonFace ==
  /\ call.selectedItems # <<>>
  /\ \A k \in DOMAIN call.selectedItems :
       /\ call.selectedItems[k].type = "card"
       /\ HasId(call.selectedItems[k])
       /\ call.selectedItems[k].rank \notin FaceRanks
  /\ call.playedCard.rank \notin FaceRanks

C18_CallCards ==
  {call.playedCard} \cup {AsCard(call.selectedItems[k]) : k \in DOMAIN call.selectedItems}

C18_Partitionable ==
  \E T \in 1..MaxBuildValue :
    /\ C18_Sum(C18_CallCards) >= 2 * T
    /\ C18_CanSplit(C18_CallCards, T)
    /\ \E c \in call.playerHand : c # call.playedCard /\ getBuildValue(c) = T
    /\ ~ \E b \in Range(call.tableItems) :
           b.type = "build" /\ b.value = T /\ b.controller = call.currentPlayer

C18_Reorderings ==
  {sel \in [DOMAIN call.selectedItems -> Range(call.selectedItems)] :
     \A i, j \in DOMAIN sel : i # j => sel[i] # sel[j]}

C18_PartitionFoundInAnyOrder ==
  (Returned("build") /\ C18_LooseNonFace) =>
    /\ C18_Partitionable => result.success
    /\ \A sel \in C18_Reorderings :
         validateBuild(call.playedCard, sel, call.playerHand, call.tableItems, call.currentPlayer).isValid = result.success

(***************************************************************************)
(* C19.  When validateBuild accepts the modification of a simple build,    *)
(* buildValue is the value of the played card plus the values of the       *)
(* selected cards of the summing group plus the value of the build being   *)
(* modified; every other selected card has exactly that value and is       *)
(* stacked on the build without adding to it.                              *)
(***************************************************************************)
C19_Modification == Returned("build") /\ callValidation.isValid /\ callValidation.isModification

C19_SelectedCards == SelectSeq(call.selectedItems, LAMBDA item : item.type = "card")

C19_TargetBuild == CHOOSE b \in Range(call.selectedItems) : b.type = "build"

C20_OpponentBuildRejected ==
  (/\ Returned("build")
   /\ \E k \in DOMAIN call.selectedItems :
        /\ call.selectedItems[k].type = "build"
        /\ call.selectedItems[k].controller # call.currentPlayer)
    => ~ callValidation.isValid

(***************************************************************************)
(* C21.  validateBuild rejects every selection that holds a pair or a      *)
(* compound build, and every selection that holds more than one build.     *)
(***************************************************************************)
C21_SelectedBuilds == {k \in DOMAIN call.selectedItems : call.selectedItems[k].type = "build"}

C21_OnlyCardsAndOneSimpleBuild ==
  (/\ Returned("build")
   /\ \/ \E k \in DOMAIN call.selectedItems : call.selectedItems[k].type = "pair"
      \/ \E k \in C21_SelectedBuilds : call.selectedItems[k].isCompound
      \/ Cardinality(C21_SelectedBuilds) > 1)
    => ~ callValidation.isValid

(***************************************************************************)
(* C22.  A build that is compound stays compound: no call returns, and no  *)
(* step of the game leaves, a table on which an item with the id of a      *)
(* build that was compound before is not compound.                         *)
(***************************************************************************)
C22_StaysCompound(before, after) ==
  \A i \in DOMAIN before : \A j \in DOMAIN after :
    (/\ before[i].type = "build"
     /\ before[i].isCompound
     /\ after[j].id = before[i].id)
      => after[j].type = "build" /\ after[j].isCompound

C22_CompoundNeverReverts ==
  /\ [](pc = "returned" /\ result.success => C22_StaysCompound(call.tableItems, result.newTableItems))
  /\ [][C22_StaysCompound(tableItems, tableItems')]_vars

\* a multi-build is increased and is still compound on the returned table
C22_Witness ==
  /\ Returned("build")
  /\ result.success
  /\ \E k \in DOMAIN call.selectedItems : \E j \in DOMAIN result.newTableItems :
       /\ call.selectedItems[k].type = "build"
       /\ call.selectedItems[k].isCompound
       /\ result.newTableItems[j].id = call.selectedItems[k].id
       /\ result.newTableItems[j].isCompound
       /\ result.newTableItems[j] # call.selectedItems[k]

(***************************************************************************)
(* C23.  No handleBuild or handlePair call removes a build or a pair from  *)
(* the table: every build and pair id of the input table is still on the   *)
(* table a successful call returns.                                        *)
(***************************************************************************)
C23_BuildsAndPairsStay ==
  ((Returned("build") \/ Returned("pair")) /\ result.success) =>
    \A i \in DOMAIN call.tableItems :
      call.tableItems[i].type \in {"build", "pair"}
        => \E j \in DOMAIN result.newTableItems :
             result.newTableItems[j].id = call.tableItems[i].id

(***************************************************************************)
(* C24.  When validateBuild refuses, handleBuild returns success = false,  *)
(* the table it was given, item for item, and the validator's message; no  *)
(* build id is taken by the call.                                          *)
(***************************************************************************)
C24_RefusedBuildReturnsInput ==
  /\ [](Returned("build") /\ ~ callValidation.isValid =>
          /\ ~ result.success
          /\ result.keys = TableKeys
          /\ result.newTableItems = call.tableItems
          /\ result.message = callValidation.message)
  /\ [][(pc = "idle" /\ pc' = "returned" /\ call'.op = "build" /\ ~ result'.success)
          => nextBuildId' = nextBuildId]_vars

\* a selection of table cards that no rule accepts, refused with a message
C24_Witness ==
  /\ Returned("build")
  /\ ~ callValidation.isValid
  /\ ~ result.success
  /\ call.selectedItems # <<>>
  /\ Range(call.selectedItems) \subseteq Range(call.tableItems)
  /\ result.newTableItems = call.tableItems
  /\ result.message # ""

(***************************************************************************)
(* C25.  Every handlePair call that does not succeed returns an object     *)
(* with success = false, newTableItems equal to the table it was given,    *)
(* and a message.                                                          *)
(***************************************************************************)
C25_FailedPairReturnsInput ==
  (Returned("pair") /\ ~ ("success" \in result.keys /\ result.success)) =>
    /\ {"success", "newTableItems", "message"} \subseteq result.keys
    /\ ~ result.success
    /\ result.newTableItems = call.tableItems

(***************************************************************************)
(* C26.  A successful handleCapture returns the table it was given without *)
(* the selected items: the items whose id is not selected, unchanged and   *)
(* in their order, and no item whose id is selected.                       *)
(***************************************************************************)
RECURSIVE C26_Without(_, _)
C26_Without(table, ids) ==
  IF table = <<>> THEN <<>>
  ELSE IF Head(table).id \in ids THEN C26_Without(Tail(table), ids)
  ELSE <<Head(table)>> \o C26_Without(Tail(table), ids)

C26_TableMinusSelection ==
  (Returned("capture") /\ result.success) =>
    /\ result.newTableItems = C26_Without(call.tableItems, Ids(call.selectedItems))
    /\ \A k \in DOMAIN call.selectedItems : call.selectedItems[k] \notin Range(result.newTableItems)
    /\ \A i \in DOMAIN call.tableItems :
         call.tableItems[i].id \notin Ids(call.selectedItems)
           => call.tableItems[i] \in Range(result.newTableItems)

\* a capture of a build and a loose card that leaves other items behind
C26_Witness ==
  /\ Returned("capture")
  /\ result.success
  /\ \E k \in DOMAIN call.selectedItems : call.selectedItems[k].type = "build"
  /\ \E k \in DOMAIN call.selectedItems : call.selectedItems[k].type = "card"
  /\ result.newTableItems # <<>>
  /\ Len(result.newTableItems) = Len(call.tableItems) - Len(call.selectedItems)

(***************************************************************************)
(* C27.  A successful handleBuild returns the items of the input table     *)
(* that were not selected, unchanged, and exactly one more item: a build   *)
(* controlled by the acting player, new or carrying the id of the selected *)
(* build; no selected loose card is left on the table.                     *)
(***************************************************************************)
C27_RemoveAt(seq, j) == SubSeq(seq, 1, j - 1) \o SubSeq(seq, j + 1, Len(seq))

C27_UnselectedPlusOneBuild ==
  (Returned("build") /\ result.success) =>
    LET rest == SelectSeq(call.tableItems, LAMBDA item : item \notin Range(call.selectedItems))
        new == result.newTableItems
    IN /\ \E j \in DOMAIN new :
            /\ new[j].type = "build"
            /\ new[j].controller = call.currentPlayer
            /\ new[j] \notin Range(call.tableItems)
            /\ validateBuild(call.playedCard, call.selectedItems, call.playerHand, call.tableItems, call.currentPlayer).isModification
                 => \E k \in DOMAIN call.selectedItems :
                      call.selectedItems[k].type = "build" /\ call.selectedItems[k].id = new[j].id
            /\ C27_RemoveAt(new, j) = rest
       /\ \A k \in DOMAIN call.selectedItems :
            call.selectedItems[k].type = "card" => call.selectedItems[k] \notin Range(new)

(***************************************************************************)
(* C28.  Every pair on the table holds at least two cards, all of the      *)
(* pair's rank; a successful handlePair on an existing pair returns that   *)
(* pair under its id with its earlier cards followed by the played card.   *)
(***************************************************************************)
C28_WellFormedPairs(table) ==
  \A k \in DOMAIN table :
    table[k].type = "pair" =>
      /\ Len(table[k].cards) >= 2
      /\ \A c \in DOMAIN table[k].cards : table[k].cards[c].rank = table[k].rank

C28_Extension ==
  /\ Returned("pair")
  /\ result.success
  /\ Len(call.selectedItems) = 1
  /\ call.selectedItems[1].type = "pair"

MostCardsThreshold == 26

\* the running scores a caller passes lie in 0..MaxRunningScore
MaxRunningScore == 2

Suits == <<"C", "D", "H", "S">>

Ranks == <<"2", "3", "4", "5", "6", "7", "8", "9", "10", "J", "Q", "K", "A">>

\* createDeck: the suits in order, each with its ranks in order
createDeck == [i \in 1..(Len(Suits) * Len(Ranks)) |-> Card(Suits[((i - 1) \div Len(Ranks)) + 1], Ranks[((i - 1) % Len(Ranks)) + 1])]

ScoreResult(p1, p2) == [p1Score |-> p1, p2Score |-> p2]

isSpade(card) == card.suit = "S"

\* pile.filter((card) => card.suit === 'S').length
spades(pile) == Len(SelectSeq(pile, isSpade))

\* the three tests of the forEach body, applied to one card
cardPoints(card) ==
  LET afterAce == IF card.rank = "A" THEN 1 ELSE 0
      afterD10 == IF suitRank(card) = "D10" THEN afterAce + 2 ELSE afterAce
  IN IF suitRank(card) = "S2" THEN afterD10 + 1 ELSE afterD10

RECURSIVE forEachCard(_, _, _)
\* pile.forEach(card => { ... }) from index i on, adding onto score
forEachCard(pile, i, score) ==
  IF i > Len(pile) THEN score
  ELSE forEachCard(pile, i + 1, score + cardPoints(pile[i]))

\* the variant that gives the spade point to both players on a tie
calculateScoresSpadeTie(player1Pile, player2Pile, player1Score, player2Score) ==
  LET p1Cards == IF Len(player1Pile) > MostCardsThreshold /\ Len(player2Pile) <= MostCardsThreshold
                 THEN player1Score + 3 ELSE player1Score
      p2Cards == IF ~(Len(player1Pile) > MostCardsThreshold /\ Len(player2Pile) <= MostCardsThreshold)
                    /\ Len(player2Pile) > MostCardsThreshold /\ Len(player1Pile) <= MostCardsThreshold
                 THEN player2Score + 3 ELSE player2Score
      p1Spades == spades(player1Pile)
      p2Spades == spades(player2Pile)
      p1Most == IF p1Spades >= p2Spades THEN p1Cards + 1 ELSE p1Cards
      p2Most == IF p2Spades >= p1Spades THEN p2Cards + 1 ELSE p2Cards
  IN ScoreResult(forEachCard(player1Pile, 1, p1Most), forEachCard(player2Pile, 1, p2Most))

\* the variant that starts the first player's count from zero
calculateScoresFromZero(player1Pile, player2Pile, player1Score, player2Score) ==
  LET p1Cards == IF Len(player1Pile) > MostCardsThreshold /\ Len(player2Pile) <= MostCardsThreshold
                 THEN 3 ELSE 0
      p2Cards == IF ~(Len(player1Pile) > MostCardsThreshold /\ Len(player2Pile) <= MostCardsThreshold)
                    /\ Len(player2Pile) > MostCardsThreshold /\ Len(player1Pile) <= MostCardsThreshold
                 THEN player2Score + 3 ELSE player2Score
      p1Spades == spades(player1Pile)
      p2Spades == spades(player2Pile)
      p1Most == IF p1Spades > p2Spades THEN p1Cards + 1 ELSE p1Cards
      p2Most == IF ~(p1Spades > p2Spades) /\ p2Spades > p1Spades THEN p2Cards + 1 ELSE p2Cards
  IN ScoreResult(forEachCard(player1Pile, 1, p1Most), forEachCard(player2Pile, 1, p2Most))

\* the variant that gives the most-cards award to a pile of half the deck
calculateScoresHalfDeckWins(player1Pile, player2Pile, player1Score, player2Score) ==
  LET p1Cards == IF Len(player1Pile) >= MostCardsThreshold THEN player1Score + 3 ELSE player1Score
      p2Cards == IF ~(Len(player1Pile) >= MostCardsThreshold) /\ Len(player2Pile) >= MostCardsThreshold
                 THEN player2Score + 3 ELSE player2Score
      p1Spades == spades(player1Pile)
      p2Spades == spades(player2Pile)
      p1Most == IF p1Spades > p2Spades THEN p1Cards + 1 ELSE p1Cards
      p2Most == IF ~(p1Spades > p2Spades) /\ p2Spades > p1Spades THEN p2Cards + 1 ELSE p2Cards
  IN ScoreResult(forEachCard(player1Pile, 1, p1Most), forEachCard(player2Pile, 1, p2Most))

calculateScores(player1Pile, player2Pile, player1Score, player2Score) ==
  LET \* most cards: if / else if
      p1Cards == IF Len(player1Pile) > MostCardsThreshold /\ Len(player2Pile) <= MostCardsThreshold
                 THEN player1Score + 3 ELSE player1Score
      p2Cards == IF ~(Len(player1Pile) > MostCardsThreshold /\ Len(player2Pile) <= MostCardsThreshold)
                    /\ Len(player2Pile) > MostCardsThreshold /\ Len(player1Pile) <= MostCardsThreshold
                 THEN player2Score + 3 ELSE player2Score
      \* most spades: if / else if
      p1Spades == spades(player1Pile)
      p2Spades == spades(player2Pile)
      p1Most == IF p1Spades > p2Spades THEN p1Cards + 1 ELSE p1Cards
      p2Most == IF ~(p1Spades > p2Spades) /\ p2Spades > p1Spades THEN p2Cards + 1 ELSE p2Cards
  IN \* card points, pile by pile
     ScoreResult(forEachCard(player1Pile, 1, p1Most), forEachCard(player2Pile, 1, p2Most))

\* the places where a pile may begin and end in the deck: a pile is the run
\* of deck cards after one cut up to another, so that piles of more than 26
\* cards, piles sharing cards, equal and unequal spade counts, the Aces, the
\* ten of diamonds and the two of spades all occur
PileCuts == {0, 13, 14, 21, 22, 26, 27, 39, 40, 51, 52}

\* a pile is a run of the deck or the deck without a run
Piles ==
  {SubSeq(createDeck, lo + 1, hi) : lo \in PileCuts, hi \in PileCuts}
    \cup {SubSeq(createDeck, 1, cut[1]) \o SubSeq(createDeck, cut[2] + 1, Len(createDeck)) : cut \in {c \in PileCuts \X PileCuts : c[1] <= c[2]}}

RunningScores == 0..MaxRunningScore

ScoreCallRecord(player1Pile, player2Pile, player1Score, player2Score) ==
  [op |-> "score", player1Pile |-> player1Pile, player2Pile |-> player2Pile,
   player1Score |-> player1Score, player2Score |-> player2Score]

InitScore ==
  /\ tableItems = <<>>
  /\ hand = [p \in Players |-> {}]
  /\ p1Score \in RunningScores
  /\ p2Score \in RunningScores
  /\ lastCapturer = 0
  /\ nextBuildId = 0
  /\ nextPairId = 0
  /\ now = 0
  /\ pc = "idle"
  /\ call = NoCall
  /\ result = NoResult
  /\ plays = 0
  /\ removedIds = {}
  /\ folded = [x \in {} |-> {}]
  /\ paired = {}
  /\ cascadeSteps = 0

\* the call: the two piles are scored onto the running scores
ScoreCall(player1Pile, player2Pile) ==
  /\ pc = "idle"
  /\ call' = ScoreCallRecord(player1Pile, player2Pile, p1Score, p2Score)
  /\ result' = calculateScores(player1Pile, player2Pile, p1Score, p2Score)
  /\ pc' = "returned"
  /\ UNCHANGED <<tableItems, hand, p1Score, p2Score, lastCapturer, nextBuildId,
                 nextPairId, now, plays, removedIds, folded, paired, cascadeSteps>>

NextScore ==
  \E player1Pile \in Piles : \E player2Pile \in Piles : ScoreCall(player1Pile, player2Pile)

SpecScore == InitScore /\ [][NextScore]_vars

(***************************************************************************)
(* C29.  calculateScores adds to the running scores exactly: 3 to the      *)
(* player whose pile holds more than 26 cards when the other's does not    *)
(* (nobody when neither or both do), 1 to the player holding strictly more *)
(* spades (nobody on a tie), and for each pile 1 per Ace, 2 for the ten of *)
(* diamonds and 1 for the two of spades; neither majority award goes to    *)
(* both players.                                                           *)
(***************************************************************************)
C29_Count(pile, cards) == Cardinality({i \in DOMAIN pile : pile[i] \in cards})

C29_Aces == {Card(Suits[i], "A") : i \in DOMAIN Suits}

C29_Spades == {Card("S", Ranks[i]) : i \in DOMAIN Ranks}

C29_MostCards(mine, other) == IF Len(mine) > 26 /\ ~(Len(other) > 26) THEN 3 ELSE 0

C29_MostSpades(mine, other) == IF C29_Count(mine, C29_Spades) > C29_Count(other, C29_Spades) THEN 1 ELSE 0

C29_CardPoints(pile) == C29_Count(pile, C29_Aces) + 2 * C29_Count(pile, {Card("D", "10")}) + C29_Count(pile, {Card("S", "2")})

C29_Delta(mine, other) == C29_MostCards(mine, other) + C29_MostSpades(mine, other) + C29_CardPoints(mine)

C29_ScoresAddExactAwards ==
  Returned("score") =>
    /\ result.p1Score = call.player1Score + C29_Delta(call.player1Pile, call.player2Pile)
    /\ result.p2Score = call.player2Score + C29_Delta(call.player2Pile, call.player1Pile)
    /\ ~(C29_MostCards(call.player1Pile, call.player2Pile) > 0 /\ C29_MostCards(call.player2Pile, call.player1Pile) > 0)
    /\ ~(C29_MostSpades(call.player1Pile, call.player2Pile) > 0 /\ C29_MostSpades(call.player2Pile, call.player1Pile) > 0)

\* a scored call where the first pile has more than 26 cards and the ten of
\* diamonds, the second has the spades with the two and the Ace, and the
\* running scores are not zero
C29_Witness ==
  /\ Returned("score")
  /\ Len(call.player1Pile) > 26
  /\ Len(call.player2Pile) <= 26
  /\ C29_Count(call.player2Pile, C29_Spades) > C29_Count(call.player1Pile, C29_Spades)
  /\ C29_Count(call.player1Pile, {Card("D", "10")}) = 1
  /\ C29_Count(call.player2Pile, {Card("S", "2")}) = 1
  /\ C29_Count(call.player2Pile, C29_Aces) = 1
  /\ call.player1Score = 1
  /\ call.player2Score = 2
  /\ result.p1Score = call.player1Score + 7
  /\ result.p2Score = call.player2Score + 3

(***************************************************************************)
(* C30.  calculateScores is deterministic and its deltas depend only on    *)
(* the piles: scoring the piles and running scores of a call again gives   *)
(* the result the call returned, and for the piles of a call each player's *)
(* delta (returned score minus running score) is the same whatever pair of *)
(* running scores is passed.                                               *)
(***************************************************************************)
C30_Deltas(player1Pile, player2Pile, player1Score, player2Score) ==
  LET scores == calculateScores(player1Pile, player2Pile, player1Score, player2Score)
  IN <<scores.p1Score - player1Score, scores.p2Score - player2Score>>

C30_DeltasDependOnPilesOnly ==
  Returned("score") =>
    /\ calculateScores(call.player1Pile, call.player2Pile, call.player1Score, call.player2Score) = result
    /\ \A a \in RunningScores : \A b \in RunningScores :
         C30_Deltas(call.player1Pile, call.player2Pile, a, b)
           = <<result.p1Score - call.player1Score, result.p2Score - call.player2Score>>

\* a scored call with different running scores, neither zero, and a delta
\* for each player
C30_Witness ==
  /\ Returned("score")
  /\ call.player1Score = 2
  /\ call.player2Score = 1
  /\ result.p1Score > call.player1Score
  /\ result.p2Score > call.player2Score
  /\ call.player1Pile # call.player2Pile

(***************************************************************************)
(* C31.  When two or more loose cards of the played card's rank lie on the *)
(* table, a handleCapture call selecting exactly one of them and nothing   *)
(* else is accepted, whatever the played rank, J, Q and K included.        *)
(***************************************************************************)
C31_LooseOfRank(table, rank) == {k \in DOMAIN table : table[k].type = "card" /\ table[k].rank = rank}

C31_OneOfSeveral ==
  /\ Returned("capture")
  /\ call.playedCard # NoCard
  /\ Len(call.selectedItems) = 1
  /\ call.selectedItems[1] \in Range(call.tableItems)
  /\ call.selectedItems[1].type = "card"
  /\ call.selectedItems[1].rank = call.playedCard.rank
  /\ Cardinality(C31_LooseOfRank(call.tableItems, call.playedCard.rank)) >= 2

C31_OneOfSeveralAccepted == C31_OneOfSeveral => result.success

\* the same statement for the ranks that have a value: 2..10 and the Ace
C31_NumericOneOfSeveralAccepted == C31_OneOfSeveral /\ call.playedCard.rank \notin FaceRanks => result.success

(***************************************************************************)
(* C32.  Every selection handleCapture accepts splits into pairwise        *)
(* disjoint capture sets generated for the played card, so the values of   *)
(* the selected items outside the rank-match set add up to a multiple of   *)
(* the played card's value.                                                *)
(***************************************************************************)
C32_Options == getValidCaptures(call.playedCard, call.tableItems)

C32_SplitsIntoDisjointSets ==
  \E chosen \in SUBSET DOMAIN C32_Options :
    /\ \A a, b \in chosen : a # b => Ids(C32_Options[a]) \cap Ids(C32_Options[b]) = {}
    /\ UNION {Ids(C32_Options[a]) : a \in chosen} = Ids(call.selectedItems)

C32_IsRankMatch(item) == item.type \in {"card", "pair"} /\ item.rank = call.playedCard.rank

C32_ValueOf(item) == IF item.type = "card" THEN combinationValue(item.rank) ELSE item.value

C32_OutsideSum == SumSeq([k \in DOMAIN call.selectedItems |-> IF C32_IsRankMatch(call.selectedItems[k]) THEN 0 ELSE C32_ValueOf(call.selectedItems[k])])

C32_IsMultiple(sum, value) == IF value = 0 THEN sum = 0 ELSE sum % value = 0

C32_AcceptedSplitsDisjointly ==
  Returned("capture") /\ result.success =>
    /\ C32_SplitsIntoDisjointSets
    /\ C32_IsMultiple(C32_OutsideSum, combinationValue(call.playedCard.rank))

(***************************************************************************)
(* C33.  A handleCapture call with an empty selection never succeeds,      *)
(* never changes the last capturer and never returns the played card as    *)
(* captured.                                                               *)
(***************************************************************************)
C33_EmptySelectionNeverCaptures ==
  Returned("capture") /\ Len(call.selectedItems) = 0 =>
    /\ ~result.success
    /\ result.newLastCapturer = call.lastCapturer
    /\ call.playedCard \notin Range(result.capturedCards)

(***************************************************************************)
(* C34.  For every played card and every table holding a loose card of the *)
(* played card's rank, some selection containing that loose card is        *)
(* accepted by handleCapture for the acting player, whatever else lies on  *)
(* the table, pairs of that rank controlled by the opponent included.      *)
(***************************************************************************)
C34_SomeSelectionTakes(item) ==
  \E mask \in 0..(Pow2(Len(call.tableItems)) - 1) :
    LET sel == MaskSubset(call.tableItems, mask)
    IN /\ item \in Range(sel)
       /\ handleCapture(call.playedCard, sel, call.currentPlayer, call.player1Score, call.player2Score, call.tableItems, call.lastCapturer).success

C34_LooseRankCardCapturable ==
  Returned("capture") /\ call.playedCard # NoCard =>
    \A k \in DOMAIN call.tableItems :
      call.tableItems[k].type = "card" /\ call.tableItems[k].rank = call.playedCard.rank
        => C34_SomeSelectionTakes(call.tableItems[k])

\* the same statement for tables without a pair of the played rank that the
\* other player controls
C34_CapturableWithoutOpposingPair ==
  /\ Returned("capture")
  /\ call.playedCard # NoCard
  /\ ~ \E j \in DOMAIN call.tableItems :
         /\ call.tableItems[j].type = "pair"
         /\ call.tableItems[j].rank = call.playedCard.rank
         /\ call.tableItems[j].controller # call.currentPlayer
  => \A k \in DOMAIN call.tableItems :
       call.tableItems[k].type = "card" /\ call.tableItems[k].rank = call.playedCard.rank
         => C34_SomeSelectionTakes(call.tableItems[k])

(***************************************************************************)
(* C35.  Every multi-build handleBuild creates from loose cards records at *)
(* least two groups, the card values of each group sum to the build's      *)
(* value, and the groups together hold the played card and every selected  *)
(* card exactly once.                                                      *)
(***************************************************************************)
C35_CreatedFromCards ==
  /\ Returned("build")
  /\ result.success
  /\ callValidation.isMultiBuildCreation
  /\ \A k \in DOMAIN call.selectedItems : call.selectedItems[k].type = "card"

C35_NewBuild == result.newTableItems[Len(result.newTableItems)]

C35_GroupCards == Flatten([g \in DOMAIN C35_NewBuild.builds |-> C35_NewBuild.builds[g].cards])

C35_Used == <<call.playedCard>> \o [k \in DOMAIN call.selectedItems |-> Card(call.selectedItems[k].suit, call.selectedItems[k].rank)]

C35_GroupSum(group) == SumSeq([k \in DOMAIN group.cards |-> combinationValue(group.cards[k].rank)])

C35_GroupsPartitionTheCards ==
  C35_CreatedFromCards =>
    /\ C35_NewBuild.type = "build"
    /\ C35_NewBuild.isCompound
    /\ Len(C35_NewBuild.builds) >= 2
    /\ \A g \in DOMAIN C35_NewBuild.builds : C35_GroupSum(C35_NewBuild.builds[g]) = C35_NewBuild.value
    /\ Len(C35_GroupCards) = Len(C35_Used)
    /\ Range(C35_GroupCards) = Range(C35_Used)
    /\ Cardinality(Range(C35_GroupCards)) = Len(C35_GroupCards)

\* a multi-build of two groups of two cards, made of the played card and
\* three selected cards
C35_Witness ==
  /\ C35_CreatedFromCards
  /\ Len(call.selectedItems) = 3
  /\ Len(C35_NewBuild.builds) = 2
  /\ \A g \in DOMAIN C35_NewBuild.builds : Len(C35_NewBuild.builds[g].cards) = 2

(***************************************************************************)
(* C36.  The value of a build item, followed by its id, never decreases:   *)
(* a successful modification of a simple build gives it a value strictly   *)
(* greater than before and at most 10, and a successful increase of a      *)
(* compound build leaves its value as it was.                              *)
(***************************************************************************)
C36_NoDecrease(before, after) ==
  \A i \in DOMAIN before : \A j \in DOMAIN after :
    (/\ before[i].type = "build"
     /\ after[j].type = "build"
     /\ before[i].id = after[j].id) => after[j].value >= before[i].value

C36_Modified(id) == {k \in DOMAIN result.newTableItems : result.newTableItems[k].type = "build" /\ result.newTableItems[k].id = id}

C36_ModificationRaises ==
  (/\ Returned("build")
   /\ result.success
   /\ callValidation.isModification
   /\ ~callValidation.isMultiBuildIncrease)
  => /\ C36_Modified(callValidation.targetBuild.id) # {}
     /\ \A k \in C36_Modified(callValidation.targetBuild.id) :
          /\ result.newTableItems[k].value > callValidation.targetBuild.value
          /\ result.newTableItems[k].value <= 10

C36_IncreaseKeeps ==
  (/\ Returned("build")
   /\ result.success
   /\ callValidation.isMultiBuildIncrease)
  => /\ C36_Modified(callValidation.targetBuild.id) # {}
     /\ \A k \in C36_Modified(callValidation.targetBuild.id) :
          result.newTableItems[k].value = callValidation.targetBuild.value

C36_BuildValueNeverDecreases ==
  /\ [](C36_ModificationRaises /\ C36_IncreaseKeeps)
  /\ [][C36_NoDecrease(tableItems, tableItems')]_vars

\* a simple build of the other player, modified to a greater value
C36_Witness ==
  /\ Returned("build")
  /\ result.success
  /\ callValidation.isModification
  /\ ~callValidation.isMultiBuildIncrease
  /\ callValidation.targetBuild.controller # call.currentPlayer
  /\ \E k \in C36_Modified(callValidation.targetBuild.id) :
       result.newTableItems[k].value > callValidation.targetBuild.value

(***************************************************************************)
(* C37.  When only loose cards are selected, validateBuild returns the     *)
(* smallest value for which the played and selected cards split into two   *)
(* or more groups of that value and the holding-card and duplicate checks  *)
(* pass; only if there is no such value does it return a single-build      *)
(* value, the played card alone with every selected card matching it being *)
(* tried first.                                                            *)
(***************************************************************************)
C37_OnlyLooseCards ==
  /\ Returned("build")
  /\ call.selectedItems # <<>>
  /\ \A k \in DOMAIN call.selectedItems :
       /\ call.selectedItems[k].type = "card"
       /\ HasId(call.selectedItems[k])
       /\ call.selectedItems[k].rank \notin FaceRanks
  /\ call.playedCard.rank \notin FaceRanks

C37_ChecksPass(T) ==
  /\ \E c \in call.playerHand : suitRank(c) # suitRank(call.playedCard) /\ combinationValue(c.rank) = T
  /\ ~ \E b \in Range(call.tableItems) : b.type = "build" /\ b.value = T /\ b.controller = call.currentPlayer

C37_MultiValues == {T \in 1..10 : C18_Sum(C18_CallCards) >= 2 * T /\ C18_CanSplit(C18_CallCards, T) /\ C37_ChecksPass(T)}

C37_Min(S) == CHOOSE m \in S : \A x \in S : m <= x

C37_PlayedAloneFits ==
  /\ \A k \in DOMAIN call.selectedItems : combinationValue(call.selectedItems[k].rank) = combinationValue(call.playedCard.rank)
  /\ C37_ChecksPass(combinationValue(call.playedCard.rank))

C37_SmallestMultiElseSingle ==
  C37_OnlyLooseCards =>
    /\ C37_MultiValues # {} =>
         /\ callValidation.isValid
         /\ callValidation.isMultiBuildCreation
         /\ callValidation.buildValue = C37_Min(C37_MultiValues)
    /\ C37_MultiValues = {} /\ callValidation.isValid =>
         /\ ~callValidation.isMultiBuildCreation
         /\ C37_PlayedAloneFits => callValidation.buildValue = combinationValue(call.playedCard.rank)

\* the same statement with the values for which findBuildPartitions returns
\* groups in place of the values for which a split exists
C37_FoundValues == {T \in 1..10 : findBuildPartitions(call.playedCard, [k \in DOMAIN call.selectedItems |-> AsCard(call.selectedItems[k])], T) # <<>> /\ C37_ChecksPass(T)}

C37_SmallestFoundElseSingle ==
  C37_OnlyLooseCards =>
    /\ C37_FoundValues # {} =>
         /\ callValidation.isValid
         /\ callValidation.isMultiBuildCreation
         /\ callValidation.buildValue = C37_Min(C37_FoundValues)
    /\ C37_FoundValues = {} /\ callValidation.isValid => ~callValidation.isMultiBuildCreation

(***************************************************************************)
(* C38.  For two piles that together hold each of the 52 deck cards        *)
(* exactly once, the points calculateScores adds to the two players sum to *)
(* 11 when one pile has more than 26 cards and to 8 when both have 26; the *)
(* spades point is always awarded.                                         *)
(***************************************************************************)
C38_WholeDeck ==
  /\ Returned("score")
  /\ Len(call.player1Pile) + Len(call.player2Pile) = 52
  /\ Range(call.player1Pile) \cup Range(call.player2Pile) = Range(createDeck)

C38_Added == (result.p1Score - call.player1Score) + (result.p2Score - call.player2Score)

C38_HasSpadePoint(added, mine, other) == added >= 1 + C29_CardPoints(mine) /\ C29_Count(mine, C29_Spades) > C29_Count(other, C29_Spades)

C38_WholeDeckTotals ==
  C38_WholeDeck =>
    /\ (Len(call.player1Pile) > 26 \/ Len(call.player2Pile) > 26) => C38_Added = 11
    /\ (Len(call.player1Pile) = 26 /\ Len(call.player2Pile) = 26) => C38_Added = 8
    /\ \/ C38_HasSpadePoint(result.p1Score - call.player1Score, call.player1Pile, call.player2Pile)
       \/ C38_HasSpadePoint(result.p2Score - call.player2Score, call.player2Pile, call.player1Pile)

\* the deck split into two piles of 26 cards, both players holding spades
C38_Witness ==
  /\ C38_WholeDeck
  /\ Len(call.player1Pile) = 26
  /\ C29_Count(call.player1Pile, C29_Spades) > 0
  /\ C29_Count(call.player2Pile, C29_Spades) > 0
  /\ call.player1Score = 2
  /\ C38_Added = 8

(***************************************************************************)
(* Calls whose selection may name items that are not on the table: the     *)
(* three operations take the selection from the caller and the table as a  *)
(* separate argument.                                                      *)
(***************************************************************************)
OffTablePositions ==
  { Position(LooseTable(<<Card("C", "3"), Card("C", "5"), Card("D", "2")>>),
             {Card("S", "2"), Card("H", "5"), Card("S", "5")}, {Card("H", "2"), Card("H", "3")}, 0, 0, 0, 0) }

\* items with an id that lie on no table of OffTablePositions
OffTableItems == {CardItem(Card("D", "3")), CardItem(Card("D", "5"))}

OffTableSelections ==
  LET pool == Range(tableItems) \cup OffTableItems
  IN {sel \in UNION {[1..n -> pool] : n \in 0..MaxSel} :
        \A i, j \in DOMAIN sel : i # j => sel[i] # sel[j]}

InitOffTable ==
  \E d \in OffTablePositions :
    /\ tableItems = d.table
    /\ hand = d.hands
    /\ p1Score = d.p1Score
    /\ p2Score = d.p2Score
    /\ lastCapturer = d.lastCapturer
    /\ nextBuildId = d.nextBuildId
    /\ nextPairId = 0
    /\ now = 0
    /\ pc = "idle"
    /\ call = NoCall
    /\ result = NoResult
    /\ plays = 0
    /\ removedIds = {}
    /\ folded = [x \in {} |-> {}]
    /\ paired = {}
    /\ cascadeSteps = 0

NextOffTable ==
  \E p \in Players : \E card \in hand[p] : \E sel \in OffTableSelections :
    \/ BuildCall(p, card, sel)
    \/ HandlePair(p, card, sel)
    \/ CaptureCall(p, card, sel)

SpecOffTable == InitOffTable /\ [][NextOffTable]_vars

(***************************************************************************)
(* C39.  Every successful handleBuild, handlePair or handleCapture call    *)
(* has a selection whose item ids are all on the input table: a selection  *)
(* naming an item that is not on the table is always rejected.             *)
(***************************************************************************)
C39_Succeeded == pc = "returned" /\ "success" \in result.keys /\ result.success

C39_SelectionOnTable == Ids(call.selectedItems) \subseteq Ids(call.tableItems)

C39_SuccessOnlyOnTableItems == C39_Succeeded => C39_SelectionOnTable

\* the same statement for handleCapture alone
C39_CaptureOnlyOnTableItems == C39_Succeeded /\ call.op = "capture" => C39_SelectionOnTable

\* the same statement for handleBuild alone
C39_BuildOnlyOnTableItems == C39_Succeeded /\ call.op = "build" => C39_SelectionOnTable

====
